---- MODULE Spec2Model ----
(***************************************************************************)
(* Verification model of the resume job recommender (job_recommender.py,   *)
(* app.py, advanced_resume_parser.py): the domain classifier, the query    *)
(* synthesizer, the domain-aware job ranker, the two entry flows and the   *)
(* resume parser with its section segmenter.                               *)
(*                                                                         *)
(* Units.  Domain scores are kept in tenths of a point (round(x, 1) in the *)
(* source leaves one decimal); similarities and boosts are kept in         *)
(* hundredths (0.15 is 15, 1.0 is 100).  The weighted score is computed    *)
(* exactly as a fraction and rounded once, half to even, as round() does.  *)
(***************************************************************************)
EXTENDS Integers, Sequences, FiniteSets, TLC

VARIABLES pc, flow, extraction, response, core_calls, resume_text, location,
          resume_analysis, auto_query, fetched_jobs, jobs, ranked,
          rank_status, embed_fail_at, encode_calls, boost_call, segmenter,
          parsed, subdomain_call, temp_file, cos_sim, first_ranked

vars == <<pc, flow, extraction, response, core_calls, resume_text, location,
          resume_analysis, auto_query, fetched_jobs, jobs, ranked,
          rank_status, embed_fail_at, encode_calls, boost_call, segmenter,
          parsed, subdomain_call, temp_file, cos_sim, first_ranked>>

(***************************************************************************)
(* Bounds of the model instance.                                           *)
(***************************************************************************)
MaxWords == 2
MaxJobs == 2
MaxLines == 4

(***************************************************************************)
(* Python primitives: str.lower(), the `in` substring test, str.join,      *)
(* str.endswith, list slicing l[:n], dict.get(key, default).               *)
(***************************************************************************)
upper_to_lower ==
    [ A |-> "a", B |-> "b", C |-> "c", D |-> "d", E |-> "e", F |-> "f",
      G |-> "g", H |-> "h", I |-> "i", J |-> "j", K |-> "k", L |-> "l",
      M |-> "m", N |-> "n", O |-> "o", P |-> "p", Q |-> "q", R |-> "r",
      S |-> "s", T |-> "t", U |-> "u", V |-> "v", W |-> "w", X |-> "x",
      Y |-> "y", Z |-> "z" ]

lower_char(c) ==
    IF c \in DOMAIN upper_to_lower THEN upper_to_lower[c] ELSE c

RECURSIVE lower(_)
lower(s) ==
    IF Len(s) = 0 THEN ""
    ELSE IF Len(s) = 1 THEN lower_char(s)
    ELSE LET half == Len(s) \div 2
         IN  lower(SubSeq(s, 1, half)) \o lower(SubSeq(s, half + 1, Len(s)))

str_in(sub, s) ==
    \E i \in 1..(Len(s) - Len(sub) + 1) : SubSeq(s, i, i + Len(sub) - 1) = sub

RECURSIVE join(_, _)
join(sep, items) ==
    IF Len(items) = 0 THEN ""
    ELSE IF Len(items) = 1 THEN items[1]
    ELSE items[1] \o sep \o join(sep, Tail(items))

endswith(s, suffix) ==
    /\ Len(suffix) <= Len(s)
    /\ SubSeq(s, Len(s) - Len(suffix) + 1, Len(s)) = suffix

take(items, n) ==
    SubSeq(items, 1, IF Len(items) < n THEN Len(items) ELSE n)

get(d, key, default) ==
    IF key \in DOMAIN d THEN d[key] ELSE default

(***************************************************************************)
(* str.strip(): the text without its leading and trailing whitespace.      *)
(***************************************************************************)
Whitespace == {" ", "\t", "\n", "\r", "\f"}

RECURSIVE first_kept(_, _)
first_kept(s, i) ==
    IF i > Len(s) \/ SubSeq(s, i, i) \notin Whitespace THEN i
    ELSE first_kept(s, i + 1)

RECURSIVE last_kept(_, _)
last_kept(s, i) ==
    IF i < 1 \/ SubSeq(s, i, i) \notin Whitespace THEN i
    ELSE last_kept(s, i - 1)

strip(s) ==
    SubSeq(s, first_kept(s, 1), last_kept(s, Len(s)))

(***************************************************************************)
(* max(items, key=...) returns the first item whose key is maximal: the    *)
(* scan keeps the current best unless a later key is strictly greater.     *)
(***************************************************************************)
RECURSIVE max_scan(_, _, _, _)
max_scan(items, key, i, best) ==
    IF i > Len(items) THEN best
    ELSE max_scan(items, key, i + 1,
                  IF key[items[i]] > key[best] THEN items[i] ELSE best)

(* Variant: a tie is won by the last maximal item instead of the first.    *)
RECURSIVE max_scan_last(_, _, _, _)
max_scan_last(items, key, i, best) ==
    IF i > Len(items) THEN best
    ELSE max_scan_last(items, key, i + 1,
                       IF key[items[i]] >= key[best] THEN items[i] ELSE best)

py_max_last(items, key) ==
    max_scan_last(items, key, 2, items[1])

py_max(items, key) ==
    max_scan(items, key, 2, items[1])

(* Variant: an item is placed in front of the items with an equal key, as  *)
(* an unstable descending sort may do.                                     *)
insert_desc_before_equal(placed, x, key) ==
    LET not_greater == {i \in 1..Len(placed) : key[placed[i]] <= key[x]}
        at == IF not_greater = {} THEN Len(placed) + 1
              ELSE CHOOSE i \in not_greater : \A j \in not_greater : i <= j
    IN  SubSeq(placed, 1, at - 1) \o <<x>> \o SubSeq(placed, at, Len(placed))

(***************************************************************************)
(* sorted(items, key=..., reverse=True) and list.sort(key=...,             *)
(* reverse=True): a stable sort, so items with equal keys keep their       *)
(* relative order also when reverse is set.  Each item is inserted behind  *)
(* every already placed item whose key is greater or equal.                *)
(***************************************************************************)
insert_desc(placed, x, key) ==
    LET smaller == {i \in 1..Len(placed) : key[placed[i]] < key[x]}
        at == IF smaller = {} THEN Len(placed) + 1
              ELSE CHOOSE i \in smaller : \A j \in smaller : i <= j
    IN  SubSeq(placed, 1, at - 1) \o <<x>> \o SubSeq(placed, at, Len(placed))

RECURSIVE sorted_desc(_, _)
sorted_desc(items, key) ==
    IF Len(items) = 0 THEN <<>>
    ELSE insert_desc(sorted_desc(SubSeq(items, 1, Len(items) - 1), key),
                     items[Len(items)], key)

(***************************************************************************)
(* round(num / den, 1), in tenths: nearest tenth, an exact half to even.   *)
(***************************************************************************)
round1(num, den) ==
    LET q == (10 * num) \div den
        r == (10 * num) % den
    IN  IF 2 * r < den THEN q
        ELSE IF 2 * r > den THEN q + 1
        ELSE IF q % 2 = 0 THEN q ELSE q + 1

(***************************************************************************)
(* The domain taxonomy of analyze_resume_type: 7 domains in declaration    *)
(* order (a dict iterates in insertion order), 5 term buckets each.        *)
(***************************************************************************)
DomainOrder ==
    << "javascript_fullstack", "python_development", "java_development",
       "cybersecurity", "data_science", "devops", "cloud_engineering" >>

Domains == {DomainOrder[i] : i \in 1..Len(DomainOrder)}

domain_keywords ==
    [ javascript_fullstack |->
        [ keywords |->
            <<"javascript", "js", "es6", "es6+", "typescript", "ts",
              "node.js", "nodejs", "react", "react.js", "angular", "vue",
              "vue.js", "next.js", "nuxt.js", "express.js", "express",
              "mern", "mean", "full stack", "fullstack", "frontend",
              "backend", "web development", "web developer",
              "frontend developer", "backend developer",
              "full stack developer", "fullstack developer">>,
          tools |->
            <<"npm", "yarn", "webpack", "babel", "eslint", "prettier",
              "jest", "mocha">>,
          frameworks |->
            <<"react", "angular", "vue", "express", "fastify", "koa",
              "next.js", "nuxt.js">>,
          databases |->
            <<"mongodb", "mysql", "postgresql", "firebase", "redis">>,
          cloud |->
            <<"aws", "vercel", "netlify", "heroku", "digitalocean">> ],
      python_development |->
        [ keywords |->
            <<"python", "django", "flask", "fastapi", "pyramid", "bottle",
              "cherrypy", "python developer", "django developer",
              "flask developer", "backend developer", "api developer",
              "python engineer", "software engineer python">>,
          tools |->
            <<"pip", "virtualenv", "conda", "pytest", "unittest", "black",
              "flake8">>,
          frameworks |->
            <<"django", "flask", "fastapi", "pyramid", "bottle">>,
          databases |->
            <<"postgresql", "mysql", "sqlite", "mongodb", "redis">>,
          cloud |->
            <<"aws", "azure", "gcp", "heroku", "digitalocean">> ],
      java_development |->
        [ keywords |->
            <<"java", "spring", "spring boot", "spring framework",
              "hibernate", "maven", "gradle", "java developer",
              "spring developer", "backend developer", "java engineer",
              "software engineer java", "enterprise java">>,
          tools |->
            <<"maven", "gradle", "ant", "junit", "mockito", "intellij",
              "eclipse">>,
          frameworks |->
            <<"spring", "spring boot", "spring mvc", "hibernate", "struts">>,
          databases |->
            <<"oracle", "mysql", "postgresql", "mongodb", "redis">>,
          cloud |->
            <<"aws", "azure", "gcp", "openshift", "kubernetes">> ],
      cybersecurity |->
        [ keywords |->
            <<"security", "cybersecurity", "cyber security", "penetration",
              "ethical hacker", "vulnerability", "threat",
              "incident response", "soc", "siem", "firewall", "ids", "ips",
              "malware", "forensics", "compliance", "audit", "risk">>,
          tools |->
            <<"wireshark", "nmap", "metasploit", "burp suite", "nessus",
              "owasp">>,
          frameworks |->
            <<"owasp", "nist", "iso 27001", "pci dss">>,
          databases |->
            <<"splunk", "elk", "qradar", "fireeye">>,
          cloud |->
            <<"aws security", "azure defender", "gcp security">> ],
      data_science |->
        [ keywords |->
            <<"data scientist", "data analyst", "machine learning", "ml",
              "deep learning", "ai", "artificial intelligence", "statistics",
              "predictive modeling", "data visualization", "nlp",
              "computer vision", "big data">>,
          tools |->
            <<"python", "r", "sql", "pandas", "numpy", "scikit-learn",
              "tensorflow", "pytorch">>,
          frameworks |->
            <<"scikit-learn", "tensorflow", "pytorch", "keras", "spark">>,
          databases |->
            <<"postgresql", "mysql", "mongodb", "hadoop", "spark">>,
          cloud |->
            <<"aws", "azure", "gcp", "databricks", "sagemaker">> ],
      devops |->
        [ keywords |->
            <<"devops", "ci/cd", "continuous integration",
              "continuous deployment", "infrastructure", "automation",
              "monitoring", "logging", "deployment">>,
          tools |->
            <<"docker", "kubernetes", "jenkins", "gitlab", "github actions",
              "terraform", "ansible">>,
          frameworks |->
            <<"kubernetes", "docker swarm", "jenkins", "gitlab ci">>,
          databases |->
            <<"prometheus", "grafana", "elk", "splunk">>,
          cloud |->
            <<"aws", "azure", "gcp", "digitalocean", "linode">> ],
      cloud_engineering |->
        [ keywords |->
            <<"cloud engineer", "cloud architect", "aws engineer",
              "azure engineer", "gcp engineer", "cloud developer",
              "infrastructure engineer">>,
          tools |->
            <<"terraform", "cloudformation", "ansible", "docker",
              "kubernetes">>,
          frameworks |->
            <<"aws", "azure", "gcp", "kubernetes", "docker">>,
          databases |->
            <<"rds", "dynamodb", "cosmos db", "firestore">>,
          cloud |->
            <<"aws", "azure", "gcp", "digitalocean", "linode">> ] ]

(* Variant: in the tree of javascript_fullstack the stack markers "mern"   *)
(* and "mean" are tested first.                                            *)
detect_subdomain_mern_first(text, primary_domain) ==
    LET resume_lower == lower(text)
        has(marker) == str_in(marker, resume_lower)
    IN  IF primary_domain = "javascript_fullstack" THEN
            IF has("mern") \/ has("mean") THEN "mern_stack"
            ELSE IF has("frontend") /\ has("backend") THEN "full_stack"
            ELSE IF has("frontend") THEN "frontend"
            ELSE IF has("backend") THEN "backend"
            ELSE "javascript_developer"
        ELSE IF primary_domain = "python_development" THEN
            IF has("django") THEN "django_developer"
            ELSE IF has("flask") THEN "flask_developer"
            ELSE IF has("fastapi") THEN "fastapi_developer"
            ELSE "python_developer"
        ELSE IF primary_domain = "java_development" THEN
            IF has("spring") THEN "spring_developer"
            ELSE IF has("hibernate") THEN "hibernate_developer"
            ELSE "java_developer"
        ELSE IF primary_domain = "cybersecurity" THEN
            IF has("penetration") \/ has("ethical hacker")
                THEN "penetration_tester"
            ELSE IF has("incident response") THEN "incident_response"
            ELSE IF has("soc") THEN "soc_analyst"
            ELSE "security_analyst"
        ELSE IF primary_domain = "data_science" THEN
            IF has("machine learning") \/ has("ml") THEN "ml_engineer"
            ELSE IF has("nlp") THEN "nlp_engineer"
            ELSE IF has("computer vision") THEN "computer_vision_engineer"
            ELSE "data_scientist"
        ELSE IF primary_domain = "devops" THEN
            IF has("ci/cd") THEN "ci_cd_engineer"
            ELSE IF has("kubernetes") THEN "kubernetes_engineer"
            ELSE IF has("terraform") THEN "infrastructure_engineer"
            ELSE "devops_engineer"
        ELSE IF primary_domain = "cloud_engineering" THEN
            IF has("aws") THEN "aws_engineer"
            ELSE IF has("azure") THEN "azure_engineer"
            ELSE IF has("gcp") THEN "gcp_engineer"
            ELSE "cloud_engineer"
        ELSE "general"

(* Variant: the framework markers are tested before the dispatch on the   *)
(* primary domain, so a marker decides whatever the domain is.             *)
detect_subdomain_marker_first(text, primary_domain) ==
    LET resume_lower == lower(text)
        has(marker) == str_in(marker, resume_lower)
    IN  IF has("django") THEN "django_developer"
        ELSE IF has("spring") THEN "spring_developer"
        ELSE IF has("aws") THEN "aws_engineer"
        ELSE IF primary_domain = "javascript_fullstack"
            THEN "javascript_developer"
        ELSE IF primary_domain = "python_development" THEN "python_developer"
        ELSE IF primary_domain = "java_development" THEN "java_developer"
        ELSE IF primary_domain = "cybersecurity" THEN "security_analyst"
        ELSE IF primary_domain = "data_science" THEN "data_scientist"
        ELSE IF primary_domain = "devops" THEN "devops_engineer"
        ELSE IF primary_domain = "cloud_engineering" THEN "cloud_engineer"
        ELSE "general"

(***************************************************************************)
(* detect_subdomain: one ordered decision tree per primary domain.         *)
(***************************************************************************)
detect_subdomain(text, primary_domain) ==
    LET resume_lower == lower(text)
        has(marker) == str_in(marker, resume_lower)
    IN  IF primary_domain = "javascript_fullstack" THEN
            IF has("frontend") /\ has("backend") THEN "full_stack"
            ELSE IF has("frontend") THEN "frontend"
            ELSE IF has("backend") THEN "backend"
            ELSE IF has("mern") \/ has("mean") THEN "mern_stack"
            ELSE "javascript_developer"
        ELSE IF primary_domain = "python_development" THEN
            IF has("django") THEN "django_developer"
            ELSE IF has("flask") THEN "flask_developer"
            ELSE IF has("fastapi") THEN "fastapi_developer"
            ELSE "python_developer"
        ELSE IF primary_domain = "java_development" THEN
            IF has("spring") THEN "spring_developer"
            ELSE IF has("hibernate") THEN "hibernate_developer"
            ELSE "java_developer"
        ELSE IF primary_domain = "cybersecurity" THEN
            IF has("penetration") \/ has("ethical hacker")
                THEN "penetration_tester"
            ELSE IF has("incident response") THEN "incident_response"
            ELSE IF has("soc") THEN "soc_analyst"
            ELSE "security_analyst"
        ELSE IF primary_domain = "data_science" THEN
            IF has("machine learning") \/ has("ml") THEN "ml_engineer"
            ELSE IF has("nlp") THEN "nlp_engineer"
            ELSE IF has("computer vision") THEN "computer_vision_engineer"
            ELSE "data_scientist"
        ELSE IF primary_domain = "devops" THEN
            IF has("ci/cd") THEN "ci_cd_engineer"
            ELSE IF has("kubernetes") THEN "kubernetes_engineer"
            ELSE IF has("terraform") THEN "infrastructure_engineer"
            ELSE "devops_engineer"
        ELSE IF primary_domain = "cloud_engineering" THEN
            IF has("aws") THEN "aws_engineer"
            ELSE IF has("azure") THEN "azure_engineer"
            ELSE IF has("gcp") THEN "gcp_engineer"
            ELSE "cloud_engineer"
        ELSE "general"

(***************************************************************************)
(* analyze_resume_type: per domain the five match lists and the weighted   *)
(* score  sum(len(matches) / len(bucket) * weight)  with weights 40, 25,   *)
(* 20, 10, 5, rounded to one decimal; then the primary domain, the top 3   *)
(* domains and the subdomain.                                              *)
(***************************************************************************)
matches(bucket, text_lower) ==
    SelectSeq(bucket, LAMBDA term : str_in(lower(term), text_lower))

(* Variant: the keyword bucket is weighted by its match count without the  *)
(* division by the bucket size.                                            *)
domain_score_unnormalized(data, text_lower) ==
    LET keyword_matches   == matches(data.keywords, text_lower)
        tool_matches      == matches(data.tools, text_lower)
        framework_matches == matches(data.frameworks, text_lower)
        database_matches  == matches(data.databases, text_lower)
        cloud_matches     == matches(data.cloud, text_lower)
        nk == Len(data.keywords)
        nt == Len(data.tools)
        nf == Len(data.frameworks)
        nd == Len(data.databases)
        nc == Len(data.cloud)
        den == nt * nf * nd * nc
        num == Len(keyword_matches) * 40 * den
                 + Len(tool_matches) * 25 * (den \div nt)
                 + Len(framework_matches) * 20 * (den \div nf)
                 + Len(database_matches) * 10 * (den \div nd)
                 + Len(cloud_matches) * 5 * (den \div nc)
    IN  [ score             |-> round1(num, den),
          keyword_matches   |-> keyword_matches,
          tool_matches      |-> tool_matches,
          framework_matches |-> framework_matches,
          database_matches  |-> database_matches,
          cloud_matches     |-> cloud_matches,
          total_keywords    |-> nk,
          total_tools       |-> nt,
          total_frameworks  |-> nf,
          total_databases   |-> nd,
          total_cloud       |-> nc ]

domain_score(data, text_lower) ==
    LET keyword_matches   == matches(data.keywords, text_lower)
        tool_matches      == matches(data.tools, text_lower)
        framework_matches == matches(data.frameworks, text_lower)
        database_matches  == matches(data.databases, text_lower)
        cloud_matches     == matches(data.cloud, text_lower)
        nk == Len(data.keywords)
        nt == Len(data.tools)
        nf == Len(data.frameworks)
        nd == Len(data.databases)
        nc == Len(data.cloud)
        den == nk * nt * nf * nd * nc
        num == Len(keyword_matches) * 40 * (den \div nk)
                 + Len(tool_matches) * 25 * (den \div nt)
                 + Len(framework_matches) * 20 * (den \div nf)
                 + Len(database_matches) * 10 * (den \div nd)
                 + Len(cloud_matches) * 5 * (den \div nc)
    IN  [ score             |-> round1(num, den),
          keyword_matches   |-> keyword_matches,
          tool_matches      |-> tool_matches,
          framework_matches |-> framework_matches,
          database_matches  |-> database_matches,
          cloud_matches     |-> cloud_matches,
          total_keywords    |-> nk,
          total_tools       |-> nt,
          total_frameworks  |-> nf,
          total_databases   |-> nd,
          total_cloud       |-> nc ]

(* Variant: the top domains are the first three declared, unsorted.       *)
analyze_resume_type_top_declared(text) ==
    LET text_lower == lower(text)
        domain_scores ==
            [d \in Domains |-> domain_score(domain_keywords[d], text_lower)]
        score == [d \in Domains |-> domain_scores[d].score]
        primary_domain == py_max(DomainOrder, score)
        ordered == DomainOrder
        top_domains ==
            [i \in 1..(IF Len(ordered) < 3 THEN Len(ordered) ELSE 3) |->
                <<ordered[i], domain_scores[ordered[i]]>>]
    IN  [ primary_domain     |-> primary_domain,
          primary_score      |-> score[primary_domain],
          subdomain          |-> detect_subdomain(text, primary_domain),
          all_domains        |-> domain_scores,
          top_domains        |-> top_domains,
          resume_text_length |-> Len(text),
          analysis |->
              [ is_strong_focus     |-> score[primary_domain] > 300,
                has_multiple_skills |->
                    Cardinality({d \in Domains : score[d] > 200}) > 1,
                is_specialized      |-> score[primary_domain] > 500 ] ]

analyze_resume_type(text) ==
    LET text_lower == lower(text)
        domain_scores ==
            [d \in Domains |-> domain_score(domain_keywords[d], text_lower)]
        score == [d \in Domains |-> domain_scores[d].score]
        primary_domain == py_max(DomainOrder, score)
        ordered == sorted_desc(DomainOrder, score)
        top_domains ==
            [i \in 1..(IF Len(ordered) < 3 THEN Len(ordered) ELSE 3) |->
                <<ordered[i], domain_scores[ordered[i]]>>]
    IN  [ primary_domain     |-> primary_domain,
          primary_score      |-> score[primary_domain],
          subdomain          |-> detect_subdomain(text, primary_domain),
          all_domains        |-> domain_scores,
          top_domains        |-> top_domains,
          resume_text_length |-> Len(text),
          analysis |->
              [ is_strong_focus     |-> score[primary_domain] > 300,
                has_multiple_skills |->
                    Cardinality({d \in Domains : score[d] > 200}) > 1,
                is_specialized      |-> score[primary_domain] > 500 ] ]

(***************************************************************************)
(* The query builders, one per domain.  Each picks a template by subdomain *)
(* and interpolates the leading matches of the primary domain.             *)
(***************************************************************************)
generate_javascript_query(primary_data, subdomain, loc) ==
    LET frameworks == take(primary_data.framework_matches, 3)
        tools      == take(primary_data.tool_matches, 2)
        databases  == take(primary_data.database_matches, 2)
    IN  IF subdomain = "full_stack" THEN
            IF Len(frameworks) > 0 /\ Len(databases) > 0
            THEN "Full Stack Developer " \o join(" ", frameworks) \o " "
                     \o join(" ", databases) \o " " \o loc \o " jobs"
            ELSE "Full Stack Developer JavaScript React Node.js " \o loc
                     \o " jobs"
        ELSE IF subdomain = "mern_stack" THEN
            "MERN Stack Developer MongoDB Express React Node.js " \o loc
                \o " jobs"
        ELSE IF subdomain = "frontend" THEN
            IF Len(frameworks) > 0
            THEN "Frontend Developer " \o join(" ", frameworks) \o " " \o loc
                     \o " jobs"
            ELSE "Frontend Developer JavaScript React " \o loc \o " jobs"
        ELSE IF subdomain = "backend" THEN
            IF Len(frameworks) > 0 /\ Len(databases) > 0
            THEN "Backend Developer " \o join(" ", frameworks) \o " "
                     \o join(" ", databases) \o " " \o loc \o " jobs"
            ELSE "Backend Developer Node.js Express " \o loc \o " jobs"
        ELSE
            IF Len(frameworks) > 0
            THEN "JavaScript Developer " \o join(" ", frameworks) \o " "
                     \o loc \o " jobs"
            ELSE "JavaScript Developer " \o loc \o " jobs"

generate_python_query(primary_data, subdomain, loc) ==
    LET frameworks == take(primary_data.framework_matches, 2)
    IN  IF subdomain = "django_developer" THEN
            "Django Developer Python " \o loc \o " jobs"
        ELSE IF subdomain = "flask_developer" THEN
            "Flask Developer Python " \o loc \o " jobs"
        ELSE IF subdomain = "fastapi_developer" THEN
            "FastAPI Developer Python " \o loc \o " jobs"
        ELSE IF Len(frameworks) > 0 THEN
            "Python Developer " \o join(" ", frameworks) \o " " \o loc
                \o " jobs"
        ELSE "Python Developer " \o loc \o " jobs"

(* Variant: the Spring template leaves the location out.                  *)
generate_java_query_spring_no_location(primary_data, subdomain, loc) ==
    LET frameworks == take(primary_data.framework_matches, 2)
    IN  IF subdomain = "spring_developer" THEN
            "Spring Developer Java jobs"
        ELSE IF subdomain = "hibernate_developer" THEN
            "Hibernate Developer Java " \o loc \o " jobs"
        ELSE IF Len(frameworks) > 0 THEN
            "Java Developer " \o join(" ", frameworks) \o " " \o loc
                \o " jobs"
        ELSE "Java Developer " \o loc \o " jobs"

generate_java_query(primary_data, subdomain, loc) ==
    LET frameworks == take(primary_data.framework_matches, 2)
    IN  IF subdomain = "spring_developer" THEN
            "Spring Developer Java " \o loc \o " jobs"
        ELSE IF subdomain = "hibernate_developer" THEN
            "Hibernate Developer Java " \o loc \o " jobs"
        ELSE IF Len(frameworks) > 0 THEN
            "Java Developer " \o join(" ", frameworks) \o " " \o loc
                \o " jobs"
        ELSE "Java Developer " \o loc \o " jobs"

generate_cybersecurity_query(primary_data, subdomain, loc) ==
    LET tools == take(primary_data.tool_matches, 2)
    IN  IF subdomain = "penetration_tester" THEN
            "Penetration Tester Ethical Hacker " \o loc \o " jobs"
        ELSE IF subdomain = "incident_response" THEN
            "Incident Response Analyst " \o loc \o " jobs"
        ELSE IF subdomain = "soc_analyst" THEN
            "SOC Analyst Security Operations " \o loc \o " jobs"
        ELSE IF Len(tools) > 0 THEN
            "Cybersecurity Engineer " \o join(" ", tools) \o " " \o loc
                \o " jobs"
        ELSE "Cybersecurity Engineer " \o loc \o " jobs"

generate_data_science_query(primary_data, subdomain, loc) ==
    LET tools == take(primary_data.tool_matches, 2)
    IN  IF subdomain = "ml_engineer" THEN
            "Machine Learning Engineer Python " \o loc \o " jobs"
        ELSE IF subdomain = "nlp_engineer" THEN
            "NLP Engineer Natural Language Processing " \o loc \o " jobs"
        ELSE IF subdomain = "computer_vision_engineer" THEN
            "Computer Vision Engineer Python " \o loc \o " jobs"
        ELSE IF Len(tools) > 0 THEN
            "Data Scientist " \o join(" ", tools) \o " " \o loc \o " jobs"
        ELSE "Data Scientist " \o loc \o " jobs"

generate_devops_query(primary_data, subdomain, loc) ==
    LET tools == take(primary_data.tool_matches, 2)
    IN  IF subdomain = "ci_cd_engineer" THEN
            "CI/CD Engineer Jenkins GitLab " \o loc \o " jobs"
        ELSE IF subdomain = "kubernetes_engineer" THEN
            "Kubernetes Engineer DevOps " \o loc \o " jobs"
        ELSE IF subdomain = "infrastructure_engineer" THEN
            "Infrastructure Engineer Terraform " \o loc \o " jobs"
        ELSE IF Len(tools) > 0 THEN
            "DevOps Engineer " \o join(" ", tools) \o " " \o loc \o " jobs"
        ELSE "DevOps Engineer " \o loc \o " jobs"

generate_cloud_query(primary_data, subdomain, loc) ==
    LET cloud_platforms == take(primary_data.cloud_matches, 2)
    IN  IF subdomain = "aws_engineer" THEN
            "AWS Engineer Cloud " \o loc \o " jobs"
        ELSE IF subdomain = "azure_engineer" THEN
            "Azure Engineer Cloud " \o loc \o " jobs"
        ELSE IF subdomain = "gcp_engineer" THEN
            "GCP Engineer Cloud " \o loc \o " jobs"
        ELSE IF Len(cloud_platforms) > 0 THEN
            "Cloud Engineer " \o join(" ", cloud_platforms) \o " " \o loc
                \o " jobs"
        ELSE "Cloud Engineer " \o loc \o " jobs"

(***************************************************************************)
(* generate_smart_query.  The three subscript reads at its head raise      *)
(* KeyError when the key is missing; the call then returns nothing.  The   *)
(* outcome is a record: raised names the exception ("" when none), value   *)
(* is the returned string.                                                 *)
(***************************************************************************)
returned(value) == [raised |-> "", value |-> value]

raised(exception) == [raised |-> exception, value |-> ""]

(* Variant: the dispatch has no branch for cloud_engineering, which falls  *)
(* through to the generic query.                                           *)
generate_smart_query_cloud_unhandled(ra, loc) ==
    IF "primary_domain" \notin DOMAIN ra THEN raised("KeyError")
    ELSE IF "top_domains" \notin DOMAIN ra THEN raised("KeyError")
    ELSE IF "all_domains" \notin DOMAIN ra THEN raised("KeyError")
    ELSE IF ra.primary_domain \notin DOMAIN ra.all_domains
        THEN raised("KeyError")
    ELSE
    LET primary_domain == ra.primary_domain
        subdomain == get(ra, "subdomain", "")
        primary_data == ra.all_domains[primary_domain]
    IN  IF primary_domain = "javascript_fullstack" THEN
            returned(generate_javascript_query(primary_data, subdomain, loc))
        ELSE IF primary_domain = "python_development" THEN
            returned(generate_python_query(primary_data, subdomain, loc))
        ELSE IF primary_domain = "java_development" THEN
            returned(generate_java_query(primary_data, subdomain, loc))
        ELSE IF primary_domain = "cybersecurity" THEN
            returned(generate_cybersecurity_query(primary_data, subdomain, loc))
        ELSE IF primary_domain = "data_science" THEN
            returned(generate_data_science_query(primary_data, subdomain, loc))
        ELSE IF primary_domain = "devops" THEN
            returned(generate_devops_query(primary_data, subdomain, loc))
        ELSE returned("Software Developer " \o loc \o " jobs")

(* Variant: the subdomain is read by subscript, which raises KeyError on   *)
(* an analysis without that key, instead of get(..., "").                  *)
generate_smart_query_subscript(ra, loc) ==
    IF "primary_domain" \notin DOMAIN ra THEN raised("KeyError")
    ELSE IF "subdomain" \notin DOMAIN ra THEN raised("KeyError")
    ELSE IF "top_domains" \notin DOMAIN ra THEN raised("KeyError")
    ELSE IF "all_domains" \notin DOMAIN ra THEN raised("KeyError")
    ELSE IF ra.primary_domain \notin DOMAIN ra.all_domains
        THEN raised("KeyError")
    ELSE
    LET primary_domain == ra.primary_domain
        subdomain == ra.subdomain
        primary_data == ra.all_domains[primary_domain]
    IN  IF primary_domain = "javascript_fullstack" THEN
            returned(generate_javascript_query(primary_data, subdomain, loc))
        ELSE IF primary_domain = "python_development" THEN
            returned(generate_python_query(primary_data, subdomain, loc))
        ELSE IF primary_domain = "java_development" THEN
            returned(generate_java_query(primary_data, subdomain, loc))
        ELSE IF primary_domain = "cybersecurity" THEN
            returned(generate_cybersecurity_query(primary_data, subdomain, loc))
        ELSE IF primary_domain = "data_science" THEN
            returned(generate_data_science_query(primary_data, subdomain, loc))
        ELSE IF primary_domain = "devops" THEN
            returned(generate_devops_query(primary_data, subdomain, loc))
        ELSE IF primary_domain = "cloud_engineering" THEN
            returned(generate_cloud_query(primary_data, subdomain, loc))
        ELSE returned("Software Developer " \o loc \o " jobs")

generate_smart_query(ra, loc) ==
    IF "primary_domain" \notin DOMAIN ra THEN raised("KeyError")
    ELSE IF "top_domains" \notin DOMAIN ra THEN raised("KeyError")
    ELSE IF "all_domains" \notin DOMAIN ra THEN raised("KeyError")
    ELSE IF ra.primary_domain \notin DOMAIN ra.all_domains
        THEN raised("KeyError")
    ELSE
    LET primary_domain == ra.primary_domain
        subdomain == get(ra, "subdomain", "")
        primary_data == ra.all_domains[primary_domain]
    IN  IF primary_domain = "javascript_fullstack" THEN
            returned(generate_javascript_query(primary_data, subdomain, loc))
        ELSE IF primary_domain = "python_development" THEN
            returned(generate_python_query(primary_data, subdomain, loc))
        ELSE IF primary_domain = "java_development" THEN
            returned(generate_java_query(primary_data, subdomain, loc))
        ELSE IF primary_domain = "cybersecurity" THEN
            returned(generate_cybersecurity_query(primary_data, subdomain, loc))
        ELSE IF primary_domain = "data_science" THEN
            returned(generate_data_science_query(primary_data, subdomain, loc))
        ELSE IF primary_domain = "devops" THEN
            returned(generate_devops_query(primary_data, subdomain, loc))
        ELSE IF primary_domain = "cloud_engineering" THEN
            returned(generate_cloud_query(primary_data, subdomain, loc))
        ELSE returned("Software Developer " \o loc \o " jobs")

(***************************************************************************)
(* The domain boosts, in hundredths.  Every builder adds its subdomain     *)
(* bonus and then level_boost (15 / 10 / 5) for each term of the high /    *)
(* medium / low tier contained in the lowercased posting text.             *)
(***************************************************************************)
min_one(n) == IF n > 1 THEN 1 ELSE n

count_in(terms, job_text) ==
    Len(SelectSeq(terms, LAMBDA keyword : str_in(keyword, job_text)))

(* Variant: a tier adds its level boost once, however many of its terms    *)
(* the text contains.                                                      *)
tier_boost_once_per_tier(keywords, job_text) ==
    15 * min_one(count_in(keywords.high, job_text))
      + 10 * min_one(count_in(keywords.medium, job_text))
      + 5 * min_one(count_in(keywords.low, job_text))

tier_boost(keywords, job_text) ==
    15 * count_in(keywords.high, job_text)
      + 10 * count_in(keywords.medium, job_text)
      + 5 * count_in(keywords.low, job_text)

js_keywords ==
    [ high   |-> <<"javascript", "js", "typescript", "ts", "react", "angular",
                   "vue", "node.js", "nodejs">>,
      medium |-> <<"express", "mongodb", "mysql", "firebase", "full stack",
                   "fullstack", "mern", "mean">>,
      low    |-> <<"npm", "yarn", "webpack", "babel", "eslint", "jest",
                   "mocha", "tailwindcss", "html5", "css3">> ]

(* Variant: the framework bonus of the frontend branch is added in the     *)
(* mern_stack branch as well.                                              *)
javascript_subdomain_scoring_mern_framework(job_text, subdomain) ==
    LET has(marker) == str_in(marker, job_text)
    IN  IF subdomain = "full_stack" THEN
            (IF has("full stack") \/ has("fullstack") THEN 30 ELSE 0)
              + (IF has("frontend") /\ has("backend") THEN 20 ELSE 0)
        ELSE IF subdomain = "mern_stack" THEN
            (IF has("mern") \/ (has("mongodb") /\ has("express")
                                  /\ has("react") /\ has("node"))
             THEN 40 ELSE 0)
              + (IF has("react") \/ has("angular") \/ has("vue")
                 THEN 20 ELSE 0)
        ELSE IF subdomain = "frontend" THEN
            (IF has("frontend") \/ has("front-end") THEN 30 ELSE 0)
              + (IF has("react") \/ has("angular") \/ has("vue")
                 THEN 20 ELSE 0)
        ELSE IF subdomain = "backend" THEN
            (IF has("backend") \/ has("back-end") THEN 30 ELSE 0)
              + (IF has("node.js") \/ has("express") THEN 20 ELSE 0)
        ELSE 0

javascript_subdomain_scoring(job_text, subdomain) ==
    LET has(marker) == str_in(marker, job_text)
    IN  IF subdomain = "full_stack" THEN
            (IF has("full stack") \/ has("fullstack") THEN 30 ELSE 0)
              + (IF has("frontend") /\ has("backend") THEN 20 ELSE 0)
        ELSE IF subdomain = "mern_stack" THEN
            IF has("mern") \/ (has("mongodb") /\ has("express")
                                 /\ has("react") /\ has("node"))
            THEN 40 ELSE 0
        ELSE IF subdomain = "frontend" THEN
            (IF has("frontend") \/ has("front-end") THEN 30 ELSE 0)
              + (IF has("react") \/ has("angular") \/ has("vue")
                 THEN 20 ELSE 0)
        ELSE IF subdomain = "backend" THEN
            (IF has("backend") \/ has("back-end") THEN 30 ELSE 0)
              + (IF has("node.js") \/ has("express") THEN 20 ELSE 0)
        ELSE 0

calculate_javascript_boost(job_text, subdomain, ra) ==
    javascript_subdomain_scoring(job_text, subdomain)
        + tier_boost(js_keywords, job_text)

python_keywords ==
    [ high   |-> <<"python", "django", "flask", "fastapi">>,
      medium |-> <<"pyramid", "bottle", "cherrypy", "api developer",
                   "backend developer">>,
      low    |-> <<"pip", "virtualenv", "conda", "pytest", "unittest">> ]

python_subdomain_scoring(job_text, subdomain) ==
    LET has(marker) == str_in(marker, job_text)
    IN  IF subdomain = "django_developer" /\ has("django") THEN 30
        ELSE IF subdomain = "flask_developer" /\ has("flask") THEN 30
        ELSE IF subdomain = "fastapi_developer" /\ has("fastapi") THEN 30
        ELSE 0

calculate_python_boost(job_text, subdomain, ra) ==
    python_subdomain_scoring(job_text, subdomain)
        + tier_boost(python_keywords, job_text)

java_keywords ==
    [ high   |-> <<"java", "spring", "spring boot", "hibernate">>,
      medium |-> <<"maven", "gradle", "junit", "mockito">>,
      low    |-> <<"ant", "intellij", "eclipse", "enterprise java">> ]

java_subdomain_scoring(job_text, subdomain) ==
    LET has(marker) == str_in(marker, job_text)
    IN  IF subdomain = "spring_developer" /\ has("spring") THEN 30
        ELSE IF subdomain = "hibernate_developer" /\ has("hibernate") THEN 30
        ELSE 0

calculate_java_boost(job_text, subdomain, ra) ==
    java_subdomain_scoring(job_text, subdomain)
        + tier_boost(java_keywords, job_text)

security_keywords ==
    [ high   |-> <<"security", "cybersecurity", "penetration",
                   "ethical hacker", "vulnerability">>,
      medium |-> <<"incident response", "soc", "siem", "firewall", "ids",
                   "ips">>,
      low    |-> <<"forensics", "compliance", "audit", "risk", "wireshark",
                   "nmap">> ]

cybersecurity_subdomain_scoring(job_text, subdomain) ==
    LET has(marker) == str_in(marker, job_text)
    IN  IF subdomain = "penetration_tester"
             /\ (has("penetration") \/ has("ethical hacker")) THEN 30
        ELSE IF subdomain = "incident_response"
             /\ has("incident response") THEN 30
        ELSE IF subdomain = "soc_analyst" /\ has("soc") THEN 30
        ELSE 0

calculate_cybersecurity_boost(job_text, subdomain, ra) ==
    cybersecurity_subdomain_scoring(job_text, subdomain)
        + tier_boost(security_keywords, job_text)

ds_keywords ==
    [ high   |-> <<"data scientist", "machine learning", "ml",
                   "deep learning", "ai">>,
      medium |-> <<"analytics", "statistics", "predictive modeling",
                   "data visualization">>,
      low    |-> <<"python", "r", "sql", "pandas", "numpy", "scikit-learn">> ]

data_science_subdomain_scoring(job_text, subdomain) ==
    LET has(marker) == str_in(marker, job_text)
    IN  IF subdomain = "ml_engineer"
             /\ (has("machine learning") \/ has("ml")) THEN 30
        ELSE IF subdomain = "nlp_engineer" /\ has("nlp") THEN 30
        ELSE IF subdomain = "computer_vision_engineer"
             /\ has("computer vision") THEN 30
        ELSE 0

calculate_data_science_boost(job_text, subdomain, ra) ==
    data_science_subdomain_scoring(job_text, subdomain)
        + tier_boost(ds_keywords, job_text)

devops_keywords ==
    [ high   |-> <<"devops", "ci/cd", "continuous integration",
                   "continuous deployment">>,
      medium |-> <<"docker", "kubernetes", "jenkins", "gitlab", "terraform">>,
      low    |-> <<"monitoring", "logging", "prometheus", "grafana",
                   "ansible">> ]

devops_subdomain_scoring(job_text, subdomain) ==
    LET has(marker) == str_in(marker, job_text)
    IN  IF subdomain = "ci_cd_engineer"
             /\ (has("ci/cd") \/ has("continuous")) THEN 30
        ELSE IF subdomain = "kubernetes_engineer" /\ has("kubernetes") THEN 30
        ELSE IF subdomain = "infrastructure_engineer" /\ has("terraform")
            THEN 30
        ELSE 0

calculate_devops_boost(job_text, subdomain, ra) ==
    devops_subdomain_scoring(job_text, subdomain)
        + tier_boost(devops_keywords, job_text)

cloud_keywords ==
    [ high   |-> <<"cloud engineer", "cloud architect", "aws engineer",
                   "azure engineer">>,
      medium |-> <<"ec2", "s3", "lambda", "rds", "vpc", "iam",
                   "cloudformation">>,
      low    |-> <<"serverless", "microservices", "kubernetes", "docker">> ]

cloud_subdomain_scoring(job_text, subdomain) ==
    LET has(marker) == str_in(marker, job_text)
    IN  IF subdomain = "aws_engineer" /\ has("aws") THEN 30
        ELSE IF subdomain = "azure_engineer" /\ has("azure") THEN 30
        ELSE IF subdomain = "gcp_engineer" /\ has("gcp") THEN 30
        ELSE 0

calculate_cloud_boost(job_text, subdomain, ra) ==
    cloud_subdomain_scoring(job_text, subdomain)
        + tier_boost(cloud_keywords, job_text)

(***************************************************************************)
(* calculate_advanced_domain_boost: dispatch on the primary domain (0 for  *)
(* any other domain), then min(boost, 0.5).                                *)
(***************************************************************************)
min(a, b) == IF b < a THEN b ELSE a

(* The value of `boost` behind the subdomain-specific block of the         *)
(* function the dispatch selects, before the tier loop adds to it.         *)
subdomain_scoring(job_lower, primary_domain, subdomain) ==
    IF primary_domain = "javascript_fullstack" THEN
        javascript_subdomain_scoring(job_lower, subdomain)
    ELSE IF primary_domain = "python_development" THEN
        python_subdomain_scoring(job_lower, subdomain)
    ELSE IF primary_domain = "java_development" THEN
        java_subdomain_scoring(job_lower, subdomain)
    ELSE IF primary_domain = "cybersecurity" THEN
        cybersecurity_subdomain_scoring(job_lower, subdomain)
    ELSE IF primary_domain = "data_science" THEN
        data_science_subdomain_scoring(job_lower, subdomain)
    ELSE IF primary_domain = "devops" THEN
        devops_subdomain_scoring(job_lower, subdomain)
    ELSE IF primary_domain = "cloud_engineering" THEN
        cloud_subdomain_scoring(job_lower, subdomain)
    ELSE 0

(* The value of `boost` in front of the cap.                               *)
dispatch_domain_boost(job_lower, primary_domain, subdomain, ra) ==
    IF primary_domain = "javascript_fullstack" THEN
        calculate_javascript_boost(job_lower, subdomain, ra)
    ELSE IF primary_domain = "python_development" THEN
        calculate_python_boost(job_lower, subdomain, ra)
    ELSE IF primary_domain = "java_development" THEN
        calculate_java_boost(job_lower, subdomain, ra)
    ELSE IF primary_domain = "cybersecurity" THEN
        calculate_cybersecurity_boost(job_lower, subdomain, ra)
    ELSE IF primary_domain = "data_science" THEN
        calculate_data_science_boost(job_lower, subdomain, ra)
    ELSE IF primary_domain = "devops" THEN
        calculate_devops_boost(job_lower, subdomain, ra)
    ELSE IF primary_domain = "cloud_engineering" THEN
        calculate_cloud_boost(job_lower, subdomain, ra)
    ELSE 0

(* Variant: the boost of the JavaScript builder is returned without the    *)
(* cap.                                                                    *)
domain_boost_uncapped(job_text, primary_domain, subdomain, ra) ==
    IF primary_domain = "javascript_fullstack"
    THEN calculate_javascript_boost(lower(job_text), subdomain, ra)
    ELSE 0

calculate_advanced_domain_boost(job_text, primary_domain, subdomain, ra) ==
    LET job_lower == lower(job_text)
        boost == dispatch_domain_boost(job_lower, primary_domain, subdomain, ra)
    IN  min(boost, 50)

(***************************************************************************)
(* The composite text of a posting: title, company and description joined  *)
(* by single spaces, a missing field read as the empty string.             *)
(***************************************************************************)
job_text_of(job) ==
    get(job, "title", "") \o " " \o get(job, "company_name", "") \o " "
        \o get(job, "description", "")

(***************************************************************************)
(* Inputs of the model instance.                                           *)
(***************************************************************************)
ResumeWords ==
    << "React.js", "frontend", "backend", "Django", "Python", "AWS", "ELK",
       "CI/CD", "Spring", "html" >>

RECURSIVE all_terms(_)
all_terms(buckets) ==
    IF Len(buckets) = 0 THEN <<>> ELSE buckets[1] \o all_terms(Tail(buckets))

FullStackResume ==
    LET data == domain_keywords["javascript_fullstack"]
    IN  join(" ", all_terms(<<data.keywords, data.tools, data.frameworks,
                              data.databases, data.cloud>>))

RECURSIVE word_lists(_, _)
word_lists(from, k) ==
    IF k = 0 THEN {<<>>}
    ELSE {<<>>} \cup
         UNION {{<<ResumeWords[i]>> \o rest : rest \in word_lists(i + 1, k - 1)}
                   : i \in from..Len(ResumeWords)}

ResumeTexts ==
    {join(" ", ws) : ws \in word_lists(1, MaxWords)} \cup {FullStackResume}

Locations == {"Bangalore", "New York"}

Postings ==
    { [ title |-> "Django REST API developer", company_name |-> "Acme",
        description |-> "3 years Python" ],
      [ title |-> "Full Stack Developer", company_name |-> "Initech",
        description |-> "frontend backend React Node.js MongoDB Express" ],
      [ title |-> "Accountant", company_name |-> "Ledger" ] }

JobLists ==
    UNION {[1..n -> Postings] : n \in 1..MaxJobs}

BaseSims == {-20, 40, 90}

SubdomainsOf ==
    [ javascript_fullstack |->
          {"full_stack", "frontend", "backend", "mern_stack",
           "javascript_developer"},
      python_development |->
          {"django_developer", "flask_developer", "fastapi_developer",
           "python_developer"},
      java_development |->
          {"spring_developer", "hibernate_developer", "java_developer"},
      cybersecurity |->
          {"penetration_tester", "incident_response", "soc_analyst",
           "security_analyst"},
      data_science |->
          {"ml_engineer", "nlp_engineer", "computer_vision_engineer",
           "data_scientist"},
      devops |->
          {"ci_cd_engineer", "kubernetes_engineer",
           "infrastructure_engineer", "devops_engineer"},
      cloud_engineering |->
          {"aws_engineer", "azure_engineer", "gcp_engineer",
           "cloud_engineer"} ]

AllSubdomains == UNION {SubdomainsOf[d] : d \in Domains}

Absent == "<absent>"

UnknownDomain == "mobile_development"

MatchLists == {<<>>, <<"alpha", "beta", "gamma", "delta">>}

CallerLocations == Locations \cup {""}

empty_data ==
    [ score |-> 0, keyword_matches |-> <<>>, tool_matches |-> <<>>,
      framework_matches |-> <<>>, database_matches |-> <<>>,
      cloud_matches |-> <<>> ]

caller_analysis(primary, sub, keys, fw, tl, db, cl) ==
    LET data == [ empty_data EXCEPT !.framework_matches = fw,
                                    !.tool_matches = tl,
                                    !.database_matches = db,
                                    !.cloud_matches = cl ]
        core == [ primary_domain |-> primary,
                  top_domains    |-> <<>>,
                  all_domains    |->
                      [d \in keys |-> IF d = primary THEN data
                                      ELSE empty_data] ]
    IN  IF sub = Absent THEN core ELSE [subdomain |-> sub] @@ core

BoostTexts ==
    {job_text_of(p) : p \in Postings}
      \cup {"", "AWS Engineer Kubernetes Terraform CI/CD", "React Developer"}

(***************************************************************************)
(* calculate_advanced_domain_boost reads only the posting text, the domain *)
(* and the subdomain, never the analysis it is handed, so the boosts of    *)
(* the instance's posting texts are evaluated once and looked up; any      *)
(* other argument is computed by the call itself.                          *)
(***************************************************************************)
boost_table ==
    [t \in BoostTexts |->
        [d \in Domains \cup {UnknownDomain, ""} |->
            [s \in AllSubdomains \cup {"", "general"} |->
                calculate_advanced_domain_boost(t, d, s, <<>>)]]]

domain_boost_of(job_text, primary_domain, subdomain, ra) ==
    IF /\ job_text \in DOMAIN boost_table
       /\ primary_domain \in DOMAIN boost_table[job_text]
       /\ subdomain \in DOMAIN boost_table[job_text][primary_domain]
    THEN boost_table[job_text][primary_domain][subdomain]
    ELSE calculate_advanced_domain_boost(job_text, primary_domain,
                                         subdomain, ra)

(* Variant: the final similarity is the plain sum, without min(..., 1.0).  *)
score_job_uncapped(job, base_sim, ra) ==
    LET primary_domain == ra.primary_domain
        subdomain == get(ra, "subdomain", "")
        domain_boost ==
            domain_boost_of(job_text_of(job), primary_domain, subdomain, ra)
    IN  [ similarity      |-> base_sim + domain_boost,
          base_similarity |-> base_sim,
          domain_boost    |-> domain_boost,
          primary_domain  |-> primary_domain,
          subdomain       |-> subdomain ] @@ job

(***************************************************************************)
(* rank_jobs_domain_aware.  The posting list holds references to the       *)
(* posting dicts: `jobs` is the list of dicts as stored, a ranked list is  *)
(* a sequence of indices into it.  The loop writes the five score fields   *)
(* into each dict in place, then the list of references is sorted on       *)
(* similarity, descending.                                                 *)
(*                                                                         *)
(* The embedding provider is outside the program: base[text] is the        *)
(* cosine similarity it yields for a posting text, and fail_at says where  *)
(* it raises: 0 while the model is loaded, 1 in the resume encode, k + 1   *)
(* in the encode of posting k, anything larger nowhere.                    *)
(***************************************************************************)
score_job(job, base_sim, ra) ==
    LET primary_domain == ra.primary_domain
        subdomain == get(ra, "subdomain", "")
        domain_boost ==
            domain_boost_of(job_text_of(job), primary_domain, subdomain, ra)
        final_similarity == min(base_sim + domain_boost, 100)
    IN  [ similarity      |-> final_similarity,
          base_similarity |-> base_sim,
          domain_boost    |-> domain_boost,
          primary_domain  |-> primary_domain,
          subdomain       |-> subdomain ] @@ job

(* Variant: the resume text is encoded anew in front of every posting.     *)
rank_jobs_encoding_resume_per_posting(text, job_list, ra, base, fail_at) ==
    LET n == Len(job_list)
        done == IF fail_at > n + 1 THEN n
                ELSE IF fail_at < 2 THEN 0 ELSE fail_at - 2
        scored == [i \in 1..n |->
                     IF i <= done
                     THEN score_job(job_list[i], base[job_text_of(job_list[i])], ra)
                     ELSE job_list[i]]
        encoded == IF fail_at > n + 1 THEN n
                   ELSE IF fail_at < 2 THEN 0 ELSE fail_at - 1
        calls == [k \in 1..(2 * encoded) |->
                     IF k % 2 = 1 THEN text
                     ELSE job_text_of(job_list[k \div 2])]
    IN  IF fail_at > n + 1
        THEN [ status |-> "returned",
               jobs   |-> scored,
               ranked |-> sorted_desc([i \in 1..n |-> i],
                                      [i \in 1..n |-> scored[i].similarity]),
               encode_calls |-> calls ]
        ELSE [ status |-> "raised",
               jobs   |-> scored,
               ranked |-> <<>>,
               encode_calls |-> calls ]

(* Variant: a failing encode ends the loop and the postings scored so far  *)
(* are sorted and returned.                                                *)
rank_jobs_partial_on_failure(text, job_list, ra, base, fail_at) ==
    LET n == Len(job_list)
        done == IF fail_at > n + 1 THEN n
                ELSE IF fail_at < 2 THEN 0 ELSE fail_at - 2
        scored == [i \in 1..n |->
                     IF i <= done
                     THEN score_job(job_list[i], base[job_text_of(job_list[i])], ra)
                     ELSE job_list[i]]
        calls == (IF fail_at >= 1 THEN <<text>> ELSE <<>>)
                   \o [i \in 1..(IF fail_at > n + 1 THEN n
                                 ELSE IF fail_at < 2 THEN 0 ELSE fail_at - 1)
                         |-> job_text_of(job_list[i])]
    IN  [ status |-> "returned",
          jobs   |-> scored,
          ranked |-> sorted_desc([i \in 1..done |-> i],
                                 [i \in 1..done |-> scored[i].similarity]),
          encode_calls |-> calls ]

rank_jobs_domain_aware(text, job_list, ra, base, fail_at) ==
    LET n == Len(job_list)
        done == IF fail_at > n + 1 THEN n
                ELSE IF fail_at < 2 THEN 0 ELSE fail_at - 2
        scored == [i \in 1..n |->
                     IF i <= done
                     THEN score_job(job_list[i], base[job_text_of(job_list[i])], ra)
                     ELSE job_list[i]]
        calls == (IF fail_at >= 1 THEN <<text>> ELSE <<>>)
                   \o [i \in 1..(IF fail_at > n + 1 THEN n
                                 ELSE IF fail_at < 2 THEN 0 ELSE fail_at - 1)
                         |-> job_text_of(job_list[i])]
    IN  IF fail_at > n + 1
        THEN [ status |-> "returned",
               jobs   |-> scored,
               ranked |-> sorted_desc([i \in 1..n |-> i],
                                      [i \in 1..n |-> scored[i].similarity]),
               encode_calls |-> calls ]
        ELSE [ status |-> "raised",
               jobs   |-> scored,
               ranked |-> <<>>,
               encode_calls |-> calls ]

(***************************************************************************)
(* AdvancedResumeParser._extract_sections.  The text is split at "\n";     *)
(* every line is stripped and skipped when empty.  A line is a header of   *)
(* the first section (in the insertion order of section_patterns) one of   *)
(* whose alternatives occurs in it, case-insensitively; re.search finds    *)
(* the alternative anywhere in the line.                                   *)
(***************************************************************************)
RECURSIVE split(_, _)
split(s, sep) ==
    LET at == {i \in 1..Len(s) : SubSeq(s, i, i) = sep}
    IN  IF at = {} THEN <<s>>
        ELSE LET first == CHOOSE i \in at : \A j \in at : i <= j
             IN  <<SubSeq(s, 1, first - 1)>>
                     \o split(SubSeq(s, first + 1, Len(s)), sep)

put(d, key, value) ==
    (key :> value) @@ d

section_patterns ==
    << [ name |-> "contact",
         alternatives |-> <<"contact", "personal", "info", "details">> ],
       [ name |-> "summary",
         alternatives |-> <<"summary", "objective", "profile", "about">> ],
       [ name |-> "experience",
         alternatives |-> <<"experience", "work", "employment", "career",
                            "professional">> ],
       [ name |-> "education",
         alternatives |-> <<"education", "academic", "qualification",
                            "degree">> ],
       [ name |-> "skills",
         alternatives |-> <<"skills", "technologies", "tools", "languages",
                            "competencies">> ],
       [ name |-> "projects",
         alternatives |-> <<"projects", "portfolio", "works",
                            "applications">> ],
       [ name |-> "certifications",
         alternatives |-> <<"certifications", "certificates",
                            "credentials">> ],
       [ name |-> "languages",
         alternatives |-> <<"languages", "spoken", "fluent">> ],
       [ name |-> "achievements",
         alternatives |-> <<"achievements", "awards", "recognition">> ] >>

re_search(alternatives, line) ==
    \E k \in 1..Len(alternatives) : str_in(alternatives[k], lower(line))

NoHeader == "<no header>"

(* Variant: the last matching pattern of the declared order wins.          *)
header_of_last_match(line) ==
    LET found == {k \in 1..Len(section_patterns) :
                     re_search(section_patterns[k].alternatives, line)}
    IN  IF found = {} THEN NoHeader
        ELSE section_patterns[CHOOSE k \in found : \A j \in found : j <= k].name

header_of(line) ==
    LET found == {k \in 1..Len(section_patterns) :
                     re_search(section_patterns[k].alternatives, line)}
    IN  IF found = {} THEN NoHeader
        ELSE section_patterns[CHOOSE k \in found : \A j \in found : k <= j].name

(***************************************************************************)
(* The loop state of _extract_sections: sections, current_section and      *)
(* current_content.  section_line is one pass of the loop body,            *)
(* section_finish the statements behind the loop.                          *)
(***************************************************************************)
section_start ==
    [ sections |-> <<>>, current_section |-> "general",
      current_content |-> <<>> ]

(* Variant: the buffer is stored under the previous tag also when that     *)
(* tag is the initial "general".                                           *)
section_line_general_stored(st, raw_line) ==
    LET line == strip(raw_line)
        section_name == header_of(line)
    IN  IF line = "" THEN st
        ELSE IF section_name # NoHeader
        THEN [ sections |->
                   put(st.sections, st.current_section,
                       join("\n", st.current_content)),
               current_section |-> section_name,
               current_content |-> <<>> ]
        ELSE [st EXCEPT !.current_content = Append(@, line)]

section_line(st, raw_line) ==
    LET line == strip(raw_line)
        section_name == header_of(line)
    IN  IF line = "" THEN st
        ELSE IF section_name # NoHeader
        THEN [ sections |->
                   IF st.current_section # "general"
                   THEN put(st.sections, st.current_section,
                            join("\n", st.current_content))
                   ELSE st.sections,
               current_section |-> section_name,
               current_content |-> <<>> ]
        ELSE [st EXCEPT !.current_content = Append(@, line)]

(* Variant: the buffer is stored under the current tag also when empty.    *)
section_finish_always(st) ==
    put(st.sections, st.current_section, join("\n", st.current_content))

section_finish(st) ==
    IF st.current_content # <<>>
    THEN put(st.sections, st.current_section, join("\n", st.current_content))
    ELSE st.sections

RECURSIVE section_loop(_, _, _)
section_loop(st, lines, i) ==
    IF i > Len(lines) THEN st
    ELSE section_loop(section_line(st, lines[i]), lines, i + 1)

extract_sections(text) ==
    section_finish(section_loop(section_start, split(text, "\n"), 1))

(***************************************************************************)
(* AdvancedResumeParser._preprocess_text: every run of whitespace becomes  *)
(* one space, every character outside the kept classes (word characters,   *)
(* whitespace, the listed punctuation) is removed, and the result is       *)
(* stripped.  The texts of the model are ASCII.                            *)
(***************************************************************************)
Upper == DOMAIN upper_to_lower

Lower == {upper_to_lower[c] : c \in Upper}

Digits == {"0", "1", "2", "3", "4", "5", "6", "7", "8", "9"}

WordChars == Upper \cup Lower \cup Digits \cup {"_"}

KeptPunctuation ==
    {"-", ".", ",", ";", ":", "!", "?", "(", ")", "[", "]", "{", "}", "@",
     "#", "$", "%", "&", "*", "+", "=", "|", "/", "\\"}

RECURSIVE map_chars(_, _, _)
map_chars(image, lo, hi) ==
    IF lo > hi THEN ""
    ELSE IF lo = hi THEN image[lo]
    ELSE LET mid == (lo + hi) \div 2
         IN  map_chars(image, lo, mid) \o map_chars(image, mid + 1, hi)

collapse_whitespace(s) ==
    LET white(i) == SubSeq(s, i, i) \in Whitespace
    IN  map_chars([i \in 1..Len(s) |->
                      IF ~white(i) THEN SubSeq(s, i, i)
                      ELSE IF i > 1 /\ white(i - 1) THEN "" ELSE " "],
                  1, Len(s))

remove_special(s) ==
    map_chars([i \in 1..Len(s) |->
                  IF SubSeq(s, i, i) \in
                         WordChars \cup Whitespace \cup KeptPunctuation
                  THEN SubSeq(s, i, i) ELSE ""],
              1, Len(s))

(* Variant: runs of blanks and tabs are collapsed, line breaks are kept.    *)
preprocess_text_keeping_lines(text) ==
    LET blank(i) == SubSeq(text, i, i) \in {" ", "\t"}
        collapsed ==
            map_chars([i \in 1..Len(text) |->
                          IF ~blank(i) THEN SubSeq(text, i, i)
                          ELSE IF i > 1 /\ blank(i - 1) THEN "" ELSE " "],
                      1, Len(text))
    IN  strip(remove_special(collapsed))

preprocess_text(text) ==
    strip(remove_special(collapse_whitespace(text)))

(***************************************************************************)
(* re.findall(r'\b[A-Z][a-z]+(?:\s+[A-Z][a-z]+)*\b', s): the maximal       *)
(* chains of capitalised words separated by whitespace only.  A word of a  *)
(* match is an upper-case letter and the whole run of lower-case letters   *)
(* behind it, with no word character before or behind (a shorter run       *)
(* never ends at a word boundary).                                         *)
(***************************************************************************)
word_end(s, i) ==
    LET stops == {j \in (i + 1)..(Len(s) + 1) :
                     j = Len(s) + 1 \/ SubSeq(s, j, j) \notin Lower}
    IN  (CHOOSE j \in stops : \A k \in stops : j <= k) - 1

is_word_char(s, i) ==
    i >= 1 /\ i <= Len(s) /\ SubSeq(s, i, i) \in WordChars

capitalised_word_at(s, i) ==
    /\ SubSeq(s, i, i) \in Upper
    /\ ~is_word_char(s, i - 1)
    /\ word_end(s, i) > i
    /\ ~is_word_char(s, word_end(s, i) + 1)

chained(s, i, j) ==
    /\ word_end(s, i) + 1 < j
    /\ \A k \in (word_end(s, i) + 1)..(j - 1) : SubSeq(s, k, k) \in Whitespace

RECURSIVE chain_end(_, _, _)
chain_end(s, starts, i) ==
    LET following == {j \in starts : j > i /\ chained(s, i, j)}
    IN  IF following = {} THEN word_end(s, i)
        ELSE chain_end(s, starts, CHOOSE j \in following : TRUE)

RECURSIVE ascending(_)
ascending(positions) ==
    IF positions = {} THEN <<>>
    ELSE LET least == CHOOSE i \in positions : \A j \in positions : i <= j
         IN  <<least>> \o ascending(positions \ {least})

findall_capitalised(s) ==
    LET starts == {i \in 1..Len(s) : capitalised_word_at(s, i)}
        heads == {i \in starts :
                     ~\E h \in starts : h < i /\ chained(s, h, i)}
        order == ascending(heads)
    IN  [k \in 1..Len(order) |->
            SubSeq(s, order[k], chain_end(s, starts, order[k]))]

(***************************************************************************)
(* AdvancedResumeParser._parse_skills: per category the skills contained   *)
(* in the lowercased "<skills_text> <full_text>", then under "other" every *)
(* capitalised chain longer than 2 whose lowercase form is not yet among   *)
(* the found skills; categories left empty are dropped.                    *)
(***************************************************************************)
skill_categories ==
    << [ name |-> "programming_languages",
         skills |-> <<"python", "javascript", "java", "c++", "c#", "php",
                      "ruby", "go", "rust", "swift", "kotlin", "scala", "r",
                      "matlab", "perl", "bash", "powershell", "typescript">> ],
       [ name |-> "frameworks",
         skills |-> <<"react", "angular", "vue", "node.js", "express",
                      "django", "flask", "spring", "laravel", "asp.net",
                      "tensorflow", "pytorch", "scikit-learn", "pandas",
                      "numpy">> ],
       [ name |-> "databases",
         skills |-> <<"mysql", "postgresql", "mongodb", "redis", "oracle",
                      "sql server", "sqlite", "cassandra", "dynamodb",
                      "elasticsearch", "neo4j">> ],
       [ name |-> "cloud_platforms",
         skills |-> <<"aws", "azure", "gcp", "heroku", "digitalocean",
                      "vercel", "netlify", "firebase">> ],
       [ name |-> "devops_tools",
         skills |-> <<"docker", "kubernetes", "jenkins", "gitlab",
                      "github actions", "terraform", "ansible", "chef",
                      "puppet", "vagrant">> ],
       [ name |-> "security_tools",
         skills |-> <<"wireshark", "nmap", "metasploit", "burp suite",
                      "nessus", "kali linux", "splunk", "elk stack",
                      "qradar", "fireeye">> ],
       [ name |-> "testing_tools",
         skills |-> <<"selenium", "cypress", "jest", "mocha", "junit",
                      "pytest", "postman", "soapui">> ] >>

RECURSIVE other_skills(_, _, _)
other_skills(additional_skills, known, other) ==
    IF Len(additional_skills) = 0 THEN other
    ELSE LET skill == additional_skills[1]
         IN  IF Len(skill) > 2 /\ lower(skill) \notin known
             THEN other_skills(Tail(additional_skills),
                               known \cup {lower(skill)}, Append(other, skill))
             ELSE other_skills(Tail(additional_skills), known, other)

(* Variant: the categories left empty are not dropped.                     *)
parse_skills_keeping_empty(skills_text, full_text) ==
    LET search_text == skills_text \o " " \o full_text
        search_text_lower == lower(search_text)
        found == [k \in 1..Len(skill_categories) |->
                     SelectSeq(skill_categories[k].skills,
                               LAMBDA skill :
                                   str_in(lower(skill), search_text_lower))]
        known == UNION {{lower(found[k][n]) : n \in 1..Len(found[k])}
                           : k \in 1..Len(skill_categories)}
        other == other_skills(findall_capitalised(search_text), known, <<>>)
        skills == [name \in {skill_categories[k].name :
                                k \in 1..Len(skill_categories)}
                             \cup {"other"} |->
                      IF name = "other" THEN other
                      ELSE found[CHOOSE k \in 1..Len(skill_categories) :
                                     skill_categories[k].name = name]]
    IN  skills

parse_skills(skills_text, full_text) ==
    LET search_text == skills_text \o " " \o full_text
        search_text_lower == lower(search_text)
        found == [k \in 1..Len(skill_categories) |->
                     SelectSeq(skill_categories[k].skills,
                               LAMBDA skill :
                                   str_in(lower(skill), search_text_lower))]
        known == UNION {{lower(found[k][n]) : n \in 1..Len(found[k])}
                           : k \in 1..Len(skill_categories)}
        other == other_skills(findall_capitalised(search_text), known, <<>>)
        skills == [name \in {skill_categories[k].name :
                                k \in 1..Len(skill_categories)}
                             \cup {"other"} |->
                      IF name = "other" THEN other
                      ELSE found[CHOOSE k \in 1..Len(skill_categories) :
                                     skill_categories[k].name = name]]
    IN  [name \in {k \in DOMAIN skills : skills[k] # <<>>} |-> skills[name]]

(***************************************************************************)
(* The entity extractors.  parse_resume hands each of them the text of one *)
(* section, '' when the section is missing.  The normalised text has no    *)
(* line break, so _extract_sections stores no section but "general" and    *)
(* every extractor is called with ''; the extractors are given on that     *)
(* argument, where no pattern of theirs matches and every `if not text`    *)
(* guard returns the empty result.                                         *)
(***************************************************************************)
None == "<None>"

parse_contact_info(text) ==
    CASE text = "" ->
        [ name |-> None, email |-> None, phone |-> None, location |-> None,
          linkedin |-> None, github |-> None, portfolio |-> None ]

parse_summary(text) ==
    CASE text = "" -> None

parse_experience(text) ==
    CASE text = "" -> <<>>

parse_education(text) ==
    CASE text = "" -> <<>>

parse_projects(text) ==
    CASE text = "" -> <<>>

parse_certifications(text) ==
    CASE text = "" -> <<>>

parse_languages(text) ==
    CASE text = "" -> <<>>

(***************************************************************************)
(* AdvancedResumeParser.parse_resume.                                      *)
(***************************************************************************)
parse_resume(raw) ==
    LET text == preprocess_text(raw)
        sections == extract_sections(text)
    IN  [ contact_info   |-> parse_contact_info(get(sections, "contact", "")),
          summary        |-> parse_summary(get(sections, "summary", "")),
          skills         |-> parse_skills(get(sections, "skills", ""), text),
          experience     |->
              parse_experience(get(sections, "experience", "")),
          education      |-> parse_education(get(sections, "education", "")),
          projects       |-> parse_projects(get(sections, "projects", "")),
          certifications |->
              parse_certifications(get(sections, "certifications", "")),
          languages      |-> parse_languages(get(sections, "languages", "")),
          raw_text       |-> text,
          parsed_sections |-> sections ]

(***************************************************************************)
(* The entry flows.  Both main and upload_resume extract the text of the   *)
(* resume file first and stop with an error when the extraction raises or  *)
(* the text is empty after strip(); upload_resume answers with an HTTP     *)
(* status, main exits (through sys.exit(1), or through the uncaught        *)
(* exception of extract_resume_text).                                      *)
(***************************************************************************)
(* Variant: the guard tests the text itself, without strip().              *)
text_is_empty_unstripped(text) ==
    text = ""

text_is_empty(text) ==
    strip(text) = ""

extraction_error(flow_name, outcome) ==
    IF flow_name = "upload"
    THEN IF outcome = "raised" THEN "HTTP 500" ELSE "HTTP 400"
    ELSE IF outcome = "raised" THEN "uncaught exception" ELSE "exit 1"

(***************************************************************************)
(* The finally clause of upload_resume, on the state of the temporary      *)
(* file: "copy" when it holds the upload, "partial" when the save into it  *)
(* raised, "deleted" once unlinked, "none" when there is none.             *)
(***************************************************************************)
(* Variant: the finally clause removes nothing.                            *)
finally_cleanup_missing(temp_file_state) ==
    temp_file_state

finally_cleanup(temp_file_state) ==
    IF temp_file_state \in {"copy", "partial"} THEN "deleted"
    ELSE temp_file_state

(***************************************************************************)
(* The except clause around the ranking call of upload_resume: the list    *)
(* of fetched postings is used as it is, and every posting dict gets the   *)
(* five score fields overwritten with the neutral values.                  *)
(***************************************************************************)
(* Variant: the neutral values are written with setdefault, so a posting   *)
(* that was scored before the failure keeps its scores.                    *)
ranking_fallback_setdefault(job_list, ra) ==
    [i \in 1..Len(job_list) |->
        job_list[i] @@
        [ similarity      |-> 50,
          base_similarity |-> 50,
          domain_boost    |-> 0,
          primary_domain  |-> ra["primary_domain"],
          subdomain       |-> get(ra, "subdomain", "") ]]

ranking_fallback(job_list, ra) ==
    [i \in 1..Len(job_list) |->
        [ similarity      |-> 50,
          base_similarity |-> 50,
          domain_boost    |-> 0,
          primary_domain  |-> ra["primary_domain"],
          subdomain       |-> get(ra, "subdomain", "") ] @@ job_list[i]]

(***************************************************************************)
(* Inputs of the parser: texts of up to MaxLines lines for the segmenter,  *)
(* and the texts a library caller analyses and parses.                     *)
(***************************************************************************)
SectionLines ==
    {"Skills", "EDUCATION", "Python", "  Django REST  ", "",
     "Spoken languages"}

HeaderTexts ==
    {"Work Languages\nPython", "Python\nProgramming languages\nJava"}

SectionTexts ==
    {join("\n", ls) : ls \in UNION {[1..n -> SectionLines] : n \in 0..MaxLines}}
        \cup HeaderTexts

FileTexts ==
    {join(" ", ws) : ws \in word_lists(1, 1)}
        \cup {FullStackResume, " \n", "Skills\nPython Django\n"}

CallerTexts ==
    ResumeTexts \cup
        { "Skills\nPython\nSkills", " Senior  React Developer\t(Node.js) ",
          "John's C++ <b>Spring Boot</b> ~ New York Is", "Education" }

no_segmenter ==
    [ status |-> "none", text |-> "", lines |-> <<>>, next |-> 1 ]
        @@ section_start

not_parsed == [status |-> "none", resume |-> <<>>]

(***************************************************************************)
(* State machine.  A caller holds one request at a time.  An entry flow    *)
(* (main or upload_resume) extracts the resume text, analyses it, builds   *)
(* the query, fetches postings and ranks them; upload_resume catches a     *)
(* failing ranking and falls back.  A library caller calls                 *)
(* analyze_resume_type, generate_smart_query or                            *)
(* calculate_advanced_domain_boost directly with arguments of its own.     *)
(* core_calls lists the core operations the request has invoked so far.    *)
(***************************************************************************)
no_analysis == [primary_domain |-> "", all_domains |-> <<>>, top_domains |-> <<>>]

(* Texts for direct calls of detect_subdomain: for each domain every       *)
(* combination of the words its tree tests, the word tested last written   *)
(* first.                                                                  *)
subdomain_markers ==
    [ javascript_fullstack |-> <<"Frontend", "Backend", "MERN", "MEAN">>,
      python_development   |-> <<"Django", "Flask", "FastAPI">>,
      java_development     |-> <<"Spring", "Hibernate">>,
      cybersecurity        |->
          <<"Penetration", "Ethical Hacker", "Incident Response", "SOC">>,
      data_science         |->
          <<"Machine Learning", "ML", "NLP", "Computer Vision">>,
      devops               |-> <<"CI/CD", "Kubernetes", "Terraform">>,
      cloud_engineering    |-> <<"AWS", "Azure", "GCP">> ]

RECURSIVE listed_backwards(_, _, _)
listed_backwards(markers, chosen, i) ==
    IF i = 0 THEN <<>>
    ELSE (IF i \in chosen THEN <<markers[i]>> ELSE <<>>)
             \o listed_backwards(markers, chosen, i - 1)

SubdomainTexts ==
    UNION {{join(" ", listed_backwards(subdomain_markers[d], chosen,
                                       Len(subdomain_markers[d])))
               : chosen \in SUBSET (1..Len(subdomain_markers[d]))}
              : d \in Domains}

no_subdomain_call == [text |-> "", primary_domain |-> "", subdomain |-> ""]

no_boost_call ==
    [ job_text |-> "", primary_domain |-> "", subdomain |-> "",
      subdomain_boost |-> 0, uncapped |-> 0, boost |-> 0 ]

Init ==
    /\ pc = "idle"
    /\ flow = "none"
    /\ extraction = "none"
    /\ response = ""
    /\ core_calls = <<>>
    /\ resume_text = ""
    /\ location = ""
    /\ resume_analysis = no_analysis
    /\ auto_query = returned("")
    /\ fetched_jobs = <<>>
    /\ jobs = <<>>
    /\ ranked = <<>>
    /\ rank_status = "none"
    /\ embed_fail_at = -1
    /\ encode_calls = <<>>
    /\ boost_call = no_boost_call
    /\ segmenter = no_segmenter
    /\ parsed = not_parsed
    /\ subdomain_call = no_subdomain_call
    /\ temp_file = "none"
    /\ cos_sim = <<>>
    /\ first_ranked = <<>>

Extract ==
    /\ pc = "idle"
    /\ \E flow_name \in {"upload", "main"}, save \in {"raised", "ok"},
          outcome \in {"none", "raised", "ok"}, text \in FileTexts :
          /\ flow_name = "main" => save = "ok"
          /\ outcome = "none" <=> save = "raised"
          /\ outcome # "ok" => text = ""
          /\ flow' = flow_name
          /\ extraction' = outcome
          /\ resume_text' = text
          /\ IF save = "raised"
             THEN /\ response' = "HTTP 500"
                  /\ pc' = "failed"
                  /\ temp_file' = "partial"
             ELSE IF outcome = "raised" \/ text_is_empty(text)
             THEN /\ response' = extraction_error(flow_name, outcome)
                  /\ pc' = "failed"
                  /\ temp_file' = IF flow_name = "upload"
                                  THEN finally_cleanup("copy") ELSE "none"
             ELSE /\ response' = ""
                  /\ pc' = "extracted"
                  /\ temp_file' = IF flow_name = "upload" THEN "copy"
                                  ELSE "none"
    /\ UNCHANGED <<core_calls, location, resume_analysis, auto_query,
                   fetched_jobs, jobs, ranked, rank_status, embed_fail_at,
                   encode_calls, boost_call, segmenter, parsed,
                   subdomain_call, cos_sim, first_ranked>>

Analyze ==
    /\ pc = "extracted"
    /\ resume_analysis' = analyze_resume_type(resume_text)
    /\ core_calls' = Append(core_calls, "analyze_resume_type")
    /\ pc' = "analyzed"
    /\ UNCHANGED <<flow, extraction, response, resume_text, location,
                   auto_query, fetched_jobs, jobs, ranked, rank_status,
                   embed_fail_at, encode_calls, boost_call, segmenter,
                   parsed,
                   subdomain_call, temp_file, cos_sim, first_ranked>>

Query ==
    /\ pc = "analyzed"
    /\ \E loc \in Locations :
          /\ location' = loc
          /\ auto_query' = generate_smart_query(resume_analysis, loc)
    /\ core_calls' = Append(core_calls, "generate_smart_query")
    /\ pc' = "queried"
    /\ UNCHANGED <<flow, extraction, response, resume_text, resume_analysis,
                   fetched_jobs, jobs, ranked, rank_status, embed_fail_at,
                   encode_calls, boost_call, segmenter, parsed,
                   subdomain_call, temp_file, cos_sim, first_ranked>>

Fetch ==
    /\ pc = "queried"
    /\ auto_query.raised = ""
    /\ \E outcome \in {"raised", "returned"}, job_list \in JobLists \cup {<<>>} :
          /\ outcome = "raised" => job_list = <<>>
          /\ fetched_jobs' = job_list
          /\ jobs' = job_list
          /\ IF outcome = "raised"
             THEN /\ response' = IF flow = "upload" THEN "HTTP 500"
                                 ELSE "uncaught exception"
                  /\ pc' = "failed"
                  /\ temp_file' = IF flow = "upload"
                                  THEN finally_cleanup(temp_file)
                                  ELSE temp_file
             ELSE IF job_list = <<>>
             THEN /\ response' = IF flow = "upload" THEN "HTTP 200"
                                 ELSE "exit 0"
                  /\ pc' = "done"
                  /\ temp_file' = IF flow = "upload"
                                  THEN finally_cleanup(temp_file)
                                  ELSE temp_file
             ELSE /\ response' = response
                  /\ pc' = "fetched"
                  /\ temp_file' = temp_file
    /\ core_calls' = Append(core_calls, "fetch_jobs_from_serpapi")
    /\ UNCHANGED <<flow, extraction, resume_text, location, resume_analysis,
                   auto_query, ranked, rank_status, embed_fail_at,
                   encode_calls, boost_call, segmenter, parsed,
                   subdomain_call, cos_sim, first_ranked>>

Rank ==
    /\ pc = "fetched"
    /\ \E base \in [{job_text_of(jobs[i]) : i \in 1..Len(jobs)} -> BaseSims],
          fail_at \in 0..(Len(jobs) + 2) :
          LET out == rank_jobs_domain_aware(resume_text, jobs,
                                            resume_analysis, base, fail_at)
          IN  /\ jobs' = out.jobs
              /\ ranked' = out.ranked
              /\ rank_status' = out.status
              /\ encode_calls' = out.encode_calls
              /\ embed_fail_at' =
                    IF fail_at <= Len(jobs) + 1 THEN fail_at ELSE -1
              /\ cos_sim' = IF out.status = "returned" THEN base ELSE <<>>
    /\ core_calls' = Append(core_calls, "rank_jobs_domain_aware")
    /\ pc' = "ranked"
    /\ UNCHANGED <<flow, extraction, response, resume_text, location,
                   resume_analysis, auto_query, fetched_jobs, boost_call,
                   segmenter, parsed, subdomain_call, temp_file,
                   first_ranked>>

(* A second call of rank_jobs_domain_aware on the list the first call       *)
(* returned: the same dicts, in ranked order.  The embedding provider is    *)
(* deterministic, so a text has the similarity it had in the first call.   *)
Rerank ==
    /\ pc = "ranked"
    /\ rank_status = "returned"
    /\ LET returned_list == [i \in 1..Len(ranked) |-> jobs[ranked[i]]]
           out == rank_jobs_domain_aware(resume_text, returned_list,
                                         resume_analysis, cos_sim,
                                         Len(returned_list) + 2)
           place(j) == CHOOSE i \in 1..Len(ranked) : ranked[i] = j
       IN  /\ first_ranked' = returned_list
           /\ jobs' = [j \in 1..Len(jobs) |-> out.jobs[place(j)]]
           /\ ranked' = [i \in 1..Len(out.ranked) |-> ranked[out.ranked[i]]]
           /\ rank_status' = out.status
           /\ encode_calls' = encode_calls \o out.encode_calls
    /\ core_calls' = Append(core_calls, "rank_jobs_domain_aware")
    /\ pc' = "reranked"
    /\ UNCHANGED <<flow, extraction, response, resume_text, location,
                   resume_analysis, auto_query, fetched_jobs, embed_fail_at,
                   boost_call, segmenter, parsed, subdomain_call, temp_file,
                   cos_sim>>

Fallback ==
    /\ pc = "ranked"
    /\ flow = "upload"
    /\ rank_status = "raised"
    /\ jobs' = ranking_fallback(jobs, resume_analysis)
    /\ ranked' = [i \in 1..Len(jobs) |-> i]
    /\ pc' = "fell_back"
    /\ UNCHANGED <<flow, extraction, response, core_calls, resume_text,
                   location, resume_analysis, auto_query, fetched_jobs,
                   rank_status, embed_fail_at, encode_calls, boost_call,
                   segmenter, parsed,
                   subdomain_call, temp_file, cos_sim, first_ranked>>

(* The rest of upload_resume behind the ranking: the top results are       *)
(* written to the CSV file and the response is built; whatever raises      *)
(* there reaches the outer handler.  The finally clause runs either way.   *)
Respond ==
    /\ flow = "upload"
    /\ \/ pc = "ranked" /\ rank_status = "returned"
       \/ pc = "fell_back"
    /\ \E outcome \in {"raised", "returned"} :
          IF outcome = "raised"
          THEN /\ response' = "HTTP 500"
               /\ pc' = "failed"
          ELSE /\ response' = "HTTP 200"
               /\ pc' = "done"
    /\ temp_file' = finally_cleanup(temp_file)
    /\ UNCHANGED <<flow, extraction, core_calls, resume_text, location,
                   resume_analysis, auto_query, fetched_jobs, jobs, ranked,
                   rank_status, embed_fail_at, encode_calls, boost_call,
                   segmenter, parsed, subdomain_call, cos_sim, first_ranked>>

CallAnalyze ==
    /\ pc = "idle"
    /\ \E text \in CallerTexts :
          /\ resume_text' = text
          /\ resume_analysis' = analyze_resume_type(text)
    /\ pc' = "analyze_called"
    /\ UNCHANGED <<flow, extraction, response, core_calls, location,
                   auto_query, fetched_jobs, jobs, ranked, rank_status,
                   embed_fail_at, encode_calls, boost_call, segmenter,
                   parsed,
                   subdomain_call, temp_file, cos_sim, first_ranked>>

CallQueryOnAnalysis ==
    /\ pc = "analyze_called"
    /\ \E loc \in CallerLocations :
          /\ location' = loc
          /\ auto_query' = generate_smart_query(resume_analysis, loc)
    /\ pc' = "analysis_queried"
    /\ UNCHANGED <<flow, extraction, response, core_calls, resume_text,
                   resume_analysis, fetched_jobs, jobs, ranked, rank_status,
                   embed_fail_at, encode_calls, boost_call, segmenter, parsed,
                   subdomain_call, temp_file, cos_sim, first_ranked>>

CallQuery ==
    /\ pc = "idle"
    /\ \E primary \in Domains \cup {UnknownDomain},
          sub \in AllSubdomains \cup {"", "general", Absent},
          with_key \in BOOLEAN,
          fw \in MatchLists, tl \in MatchLists, db \in MatchLists,
          cl \in MatchLists, loc \in CallerLocations :
          /\ primary \in Domains => with_key
          /\ LET keys == IF with_key THEN Domains \cup {primary} ELSE Domains
                 ra == caller_analysis(primary, sub, keys, fw, tl, db, cl)
             IN  /\ resume_analysis' = ra
                 /\ location' = loc
                 /\ auto_query' = generate_smart_query(ra, loc)
    /\ pc' = "query_called"
    /\ UNCHANGED <<flow, extraction, response, core_calls, resume_text,
                   fetched_jobs, jobs, ranked, rank_status, embed_fail_at,
                   encode_calls, boost_call, segmenter, parsed,
                   subdomain_call, temp_file, cos_sim, first_ranked>>

CallBoost ==
    /\ pc = "idle"
    /\ \E text \in BoostTexts,
          primary \in Domains \cup {UnknownDomain, ""},
          sub \in AllSubdomains \cup {"", "general"} :
          boost_call' =
              [ job_text        |-> text,
                primary_domain  |-> primary,
                subdomain       |-> sub,
                subdomain_boost |->
                    subdomain_scoring(lower(text), primary, sub),
                uncapped        |->
                    dispatch_domain_boost(lower(text), primary, sub,
                                          no_analysis),
                boost           |->
                    domain_boost_of(text, primary, sub, no_analysis) ]
    /\ pc' = "boost_called"
    /\ UNCHANGED <<flow, extraction, response, core_calls, resume_text,
                   location, resume_analysis, auto_query, fetched_jobs, jobs,
                   ranked, rank_status, embed_fail_at, encode_calls,
                   segmenter, parsed,
                   subdomain_call, temp_file, cos_sim, first_ranked>>

CallDetectSubdomain ==
    /\ pc = "idle"
    /\ \E text \in SubdomainTexts,
          primary \in Domains \cup {UnknownDomain, ""} :
          subdomain_call' =
              [ text           |-> text,
                primary_domain |-> primary,
                subdomain      |-> detect_subdomain(text, primary) ]
    /\ pc' = "subdomain_called"
    /\ UNCHANGED <<flow, extraction, response, core_calls, resume_text,
                   location, resume_analysis, auto_query, fetched_jobs, jobs,
                   ranked, rank_status, embed_fail_at, encode_calls,
                   boost_call, segmenter, parsed, temp_file, cos_sim,
                   first_ranked>>

CallExtractSections ==
    /\ pc = "idle"
    /\ \E text \in SectionTexts :
          segmenter' =
              [ status |-> "running", text |-> text,
                lines |-> split(text, "\n"), next |-> 1 ] @@ section_start
    /\ pc' = "segmenting"
    /\ UNCHANGED <<flow, extraction, response, core_calls, resume_text,
                   location, resume_analysis, auto_query, fetched_jobs, jobs,
                   ranked, rank_status, embed_fail_at, encode_calls,
                   boost_call, parsed,
                   subdomain_call, temp_file, cos_sim, first_ranked>>

SectionLine ==
    /\ pc = "segmenting"
    /\ segmenter.next <= Len(segmenter.lines)
    /\ segmenter' =
          [ status |-> "running", text |-> segmenter.text,
            lines |-> segmenter.lines, next |-> segmenter.next + 1 ]
            @@ section_line([ sections |-> segmenter.sections,
                              current_section |-> segmenter.current_section,
                              current_content |-> segmenter.current_content ],
                            segmenter.lines[segmenter.next])
    /\ UNCHANGED <<pc, flow, extraction, response, core_calls, resume_text,
                   location, resume_analysis, auto_query, fetched_jobs, jobs,
                   ranked, rank_status, embed_fail_at, encode_calls,
                   boost_call, parsed,
                   subdomain_call, temp_file, cos_sim, first_ranked>>

SectionsReturn ==
    /\ pc = "segmenting"
    /\ segmenter.next > Len(segmenter.lines)
    /\ segmenter' =
          [ segmenter EXCEPT
              !.status = "returned",
              !.sections =
                  section_finish([ sections |-> segmenter.sections,
                                   current_section |->
                                       segmenter.current_section,
                                   current_content |->
                                       segmenter.current_content ]) ]
    /\ pc' = "segmented"
    /\ UNCHANGED <<flow, extraction, response, core_calls, resume_text,
                   location, resume_analysis, auto_query, fetched_jobs, jobs,
                   ranked, rank_status, embed_fail_at, encode_calls,
                   boost_call, parsed,
                   subdomain_call, temp_file, cos_sim, first_ranked>>

CallParse ==
    /\ pc = "analyze_called"
    /\ parsed' = [status |-> "returned", resume |-> parse_resume(resume_text)]
    /\ pc' = "parsed"
    /\ UNCHANGED <<flow, extraction, response, core_calls, resume_text,
                   location, resume_analysis, auto_query, fetched_jobs, jobs,
                   ranked, rank_status, embed_fail_at, encode_calls,
                   boost_call, segmenter,
                   subdomain_call, temp_file, cos_sim, first_ranked>>

Next ==
    \/ Extract
    \/ Analyze
    \/ Query
    \/ Fetch
    \/ Rank
    \/ Rerank
    \/ Fallback
    \/ Respond
    \/ CallAnalyze
    \/ CallQueryOnAnalysis
    \/ CallQuery
    \/ CallBoost
    \/ CallDetectSubdomain
    \/ CallExtractSections
    \/ SectionLine
    \/ SectionsReturn
    \/ CallParse

Spec == Init /\ [][Next]_vars

(***************************************************************************)
(* Properties.                                                             *)
(***************************************************************************)
Analyzed ==
    pc \in {"analyzed", "queried", "fetched", "ranked", "fell_back",
            "analyze_called", "parsed"}

QueryMade ==
    pc \in {"queried", "fetched", "ranked", "fell_back", "query_called"}

Returned == pc = "ranked" /\ rank_status = "returned"

domain_index(d) == CHOOSE i \in 1..Len(DomainOrder) : DomainOrder[i] = d

score_of(d) == resume_analysis.all_domains[d].score

(* C1: the primary domain of an analysis has a score >= the score of each  *)
(* of the 7 domains, and no domain declared before it has the same score:  *)
(* among the domains sharing the maximum (all 7 when every score is 0) it  *)
(* is the first in declaration order.                                      *)
C1_PrimaryIsFirstMaximum ==
    Analyzed =>
        /\ resume_analysis.primary_domain \in Domains
        /\ resume_analysis.primary_score
               = score_of(resume_analysis.primary_domain)
        /\ \A d \in Domains :
              /\ score_of(resume_analysis.primary_domain) >= score_of(d)
              /\ score_of(d) = score_of(resume_analysis.primary_domain)
                    => domain_index(resume_analysis.primary_domain)
                           <= domain_index(d)

(* C1 witness: a resume on which two domains, neither the first declared,  *)
(* share a positive maximum and the earlier one is the primary domain.     *)
C1_Witness ==
    /\ Analyzed
    /\ resume_analysis.primary_domain = "cybersecurity"
    /\ score_of("devops") = score_of("cybersecurity")
    /\ score_of("cybersecurity") > 0

(* C2: every domain score of an analysis lies in [0, 100], that is in      *)
(* 0..1000 tenths, and the analysis scores exactly the 7 domains.          *)
C2_ScoreInRange ==
    Analyzed =>
        /\ DOMAIN resume_analysis.all_domains = Domains
        /\ \A d \in Domains : score_of(d) >= 0 /\ score_of(d) <= 1000

(* C2 witness: the resume naming every term of one domain scores the full  *)
(* 100 for it while other domains score strictly between 0 and 100.        *)
C2_Witness ==
    /\ Analyzed
    /\ resume_text = FullStackResume
    /\ score_of("javascript_fullstack") = 1000
    /\ score_of("python_development") > 0
    /\ score_of("python_development") < 1000

(* C3: calculate_advanced_domain_boost returns a boost in [0, 0.5] (0..50  *)
(* hundredths) for every posting text, primary domain and subdomain, when  *)
(* called directly and when called by the ranker.                          *)
C3_BoostInRange ==
    /\ boost_call.boost >= 0
    /\ boost_call.boost <= 50
    /\ \A i \in 1..Len(jobs) :
          "domain_boost" \in DOMAIN jobs[i]
              => jobs[i].domain_boost >= 0 /\ jobs[i].domain_boost <= 50

(* C3 witness: a direct call whose tier and subdomain bonuses add up to    *)
(* more than 0.5 and whose result is the cap.                              *)
C3_Witness ==
    /\ pc = "boost_called"
    /\ boost_call.primary_domain = "javascript_fullstack"
    /\ boost_call.subdomain = "full_stack"
    /\ calculate_javascript_boost(lower(boost_call.job_text),
                                  boost_call.subdomain, <<>>) > 50
    /\ boost_call.boost = 50

(* C4: the final similarity stored on every ranked posting lies in [0, 1]  *)
(* (0..100 hundredths), for every base similarity the provider returns.    *)
C4_FinalSimilarityInUnitRange ==
    Returned =>
        \A k \in 1..Len(ranked) :
            /\ jobs[ranked[k]].similarity >= 0
            /\ jobs[ranked[k]].similarity <= 100

(* C5: every ranked posting carries similarity = min(base_similarity +     *)
(* domain_boost, 1.0), its domain_boost being the capped boost of its      *)
(* title + company + description text for the primary domain and           *)
(* subdomain of the analysis.                                              *)
C5_SimilarityIsCappedSum ==
    Returned =>
        \A k \in 1..Len(ranked) :
            LET job == jobs[ranked[k]]
            IN  /\ job.domain_boost
                       = domain_boost_of(
                             job_text_of(fetched_jobs[ranked[k]]),
                             resume_analysis.primary_domain,
                             resume_analysis.subdomain, resume_analysis)
                /\ job.similarity
                       = min(job.base_similarity + job.domain_boost, 100)

(* C5 witness: a ranked posting whose base similarity plus a positive      *)
(* boost exceeds 1.0, stored with similarity 1.0.                          *)
C5_Witness ==
    /\ Returned
    /\ \E k \in 1..Len(ranked) :
          /\ jobs[ranked[k]].domain_boost > 0
          /\ jobs[ranked[k]].base_similarity + jobs[ranked[k]].domain_boost
                 > 100
          /\ jobs[ranked[k]].similarity = 100

(* C6: the ranked list is a permutation of the input postings (each input  *)
(* record exactly once, its posting fields as fetched), non-increasing in  *)
(* similarity, and postings of equal similarity keep their input order.    *)
C6_RankedIsStableSortedPermutation ==
    Returned =>
        /\ Len(ranked) = Len(fetched_jobs)
        /\ Len(jobs) = Len(fetched_jobs)
        /\ {ranked[k] : k \in 1..Len(ranked)} = 1..Len(fetched_jobs)
        /\ \A i \in 1..Len(jobs) :
              [f \in DOMAIN fetched_jobs[i] |-> jobs[i][f]] = fetched_jobs[i]
        /\ \A k \in 1..Len(ranked), l \in 1..Len(ranked) :
              k < l =>
                  /\ jobs[ranked[k]].similarity >= jobs[ranked[l]].similarity
                  /\ jobs[ranked[k]].similarity = jobs[ranked[l]].similarity
                        => ranked[k] < ranked[l]

(* C6 witness: two different postings ranked with the same similarity.     *)
C6_Witness ==
    /\ Returned
    /\ \E k \in 1..Len(ranked), l \in 1..Len(ranked) :
          /\ k < l
          /\ fetched_jobs[ranked[k]] # fetched_jobs[ranked[l]]
          /\ jobs[ranked[k]].similarity = jobs[ranked[l]].similarity

(* C7: the subdomain of an analysis is a tag of the fixed subdomain set of *)
(* its primary domain, or "general"; never a tag of another domain.        *)
C7_SubdomainBelongsToPrimary ==
    Analyzed =>
        resume_analysis.subdomain
            \in SubdomainsOf[resume_analysis.primary_domain] \cup {"general"}

(* C7 witness: a resume holding a marker of another domain's tree          *)
(* ("frontend") whose primary domain is python_development and whose       *)
(* subdomain is that domain's own django_developer.                        *)
C7_Witness ==
    /\ Analyzed
    /\ str_in("frontend", lower(resume_text))
    /\ resume_analysis.primary_domain = "python_development"
    /\ resume_analysis.subdomain = "django_developer"

(* C8: for an analysis whose primary domain is one of the 7 domains,       *)
(* generate_smart_query raises nothing and returns a non-empty string,     *)
(* whatever the subdomain (also absent), match lists and location.         *)
C8_QueryIsTotal ==
    (QueryMade /\ resume_analysis.primary_domain \in Domains) =>
        /\ auto_query.raised = ""
        /\ Len(auto_query.value) > 0

(* C8 witness: a call with a recognized domain, no subdomain key, empty    *)
(* match lists and an empty location, which returned a string.             *)
C8_Witness ==
    /\ pc = "query_called"
    /\ resume_analysis.primary_domain \in Domains
    /\ "subdomain" \notin DOMAIN resume_analysis
    /\ resume_analysis.all_domains[resume_analysis.primary_domain]
           = empty_data
    /\ location = ""
    /\ Len(auto_query.value) > 0

(* C9: for an analysis whose primary domain is none of the 7 domains,      *)
(* generate_smart_query raises nothing and returns                         *)
(* "Software Developer <location> jobs".                                   *)
C9_UnknownDomainFallsBack ==
    (QueryMade /\ resume_analysis.primary_domain \notin Domains) =>
        auto_query = returned("Software Developer " \o location \o " jobs")

(* C10: every string generate_smart_query returns ends with                *)
(* " <location> jobs" for the location it was given.                       *)
C10_QueryEndsWithLocationJobs ==
    (QueryMade /\ auto_query.raised = "") =>
        endswith(auto_query.value, " " \o location \o " jobs")

(* C10 witness: a returned query of the fixed MERN template for a location *)
(* of two words.                                                           *)
C10_Witness ==
    /\ pc = "query_called"
    /\ resume_analysis.primary_domain = "javascript_fullstack"
    /\ "subdomain" \in DOMAIN resume_analysis
    /\ resume_analysis.subdomain = "mern_stack"
    /\ location = "New York"
    /\ auto_query.raised = ""

(* C11: ranking does not modify the input posting records: after           *)
(* rank_jobs_domain_aware has returned, every posting of the input list    *)
(* has exactly the fields and values it had when it was fetched (the       *)
(* score fields live on new records only).                                 *)
C11_RankingLeavesPostingsUnmodified ==
    Returned => jobs = fetched_jobs

(* C12: when the embedding provider raises (while the model is loaded, in  *)
(* the resume encode, or in the encode or similarity of a posting at any   *)
(* position), rank_jobs_domain_aware raises as a whole and returns no      *)
(* ranked list, neither full nor partial.                                  *)
C12_EmbeddingFailureFailsRanking ==
    (pc = "ranked" /\ embed_fail_at >= 0) =>
        /\ rank_status = "raised"
        /\ ranked = <<>>

(* C12 witness: the provider raised on the last of two postings, after the *)
(* first one had been scored.                                              *)
C12_Witness ==
    /\ pc = "ranked"
    /\ Len(jobs) = 2
    /\ embed_fail_at = 3
    /\ "similarity" \in DOMAIN jobs[1]
    /\ "similarity" \notin DOMAIN jobs[2]
    /\ rank_status = "raised"

(* C13: in the upload flow, after a ranking that failed at any point (also *)
(* after some postings were scored in place), the fallback leaves every    *)
(* fetched posting with similarity 0.5, base_similarity 0.5, domain_boost  *)
(* 0.0 and the primary domain and subdomain of the analysis, its fetched   *)
(* fields untouched, and the result list is the fetched list in the order  *)
(* of the provider.                                                        *)
C13_FallbackNeutralScores ==
    pc = "fell_back" =>
        /\ flow = "upload"
        /\ Len(jobs) = Len(fetched_jobs)
        /\ ranked = [i \in 1..Len(fetched_jobs) |-> i]
        /\ \A i \in 1..Len(jobs) :
              /\ jobs[i].similarity = 50
              /\ jobs[i].base_similarity = 50
              /\ jobs[i].domain_boost = 0
              /\ jobs[i].primary_domain = resume_analysis.primary_domain
              /\ jobs[i].subdomain = resume_analysis.subdomain
              /\ \A field \in DOMAIN fetched_jobs[i] :
                    jobs[i][field] = fetched_jobs[i][field]

(* C13 witness: the fallback ran after the provider raised on the second   *)
(* of two postings, the first one having been encoded and scored.          *)
C13_Witness ==
    /\ pc = "fell_back"
    /\ Len(jobs) = 2
    /\ embed_fail_at = 3
    /\ Len(encode_calls) = 3
    /\ jobs[1].similarity = 50

(* C14: in both entry flows the core operations (analyze_resume_type,      *)
(* generate_smart_query, the job fetch, the ranking) are invoked only      *)
(* after the extraction returned a text that is non-empty after strip();   *)
(* when the extraction raised or the text is empty after strip(), the flow *)
(* has reported an error and no core operation has run.                    *)
C14_CoreOnlyAfterExtraction ==
    flow \in {"upload", "main"} =>
        /\ core_calls # <<>> =>
              (extraction = "ok" /\ strip(resume_text) # "")
        /\ (extraction = "raised" \/ strip(resume_text) = "") =>
              /\ pc = "failed"
              /\ response # ""
              /\ core_calls = <<>>
              /\ resume_analysis = no_analysis
              /\ fetched_jobs = <<>>
              /\ rank_status = "none"

(* C14 witness: an upload whose file yields only whitespace is answered    *)
(* with the HTTP 400 error, no core operation having run.                  *)
C14_Witness ==
    /\ flow = "upload"
    /\ extraction = "ok"
    /\ resume_text = " \n"
    /\ pc = "failed"
    /\ response = "HTTP 400"
    /\ core_calls = <<>>

Segmented == pc = "segmented" /\ segmenter.status = "returned"

NoHeaderLine ==
    \A k \in 1..Len(segmenter.lines) :
        header_of(strip(segmenter.lines[k])) = NoHeader

kept_lines(lines) ==
    LET stripped == [k \in 1..Len(lines) |-> strip(lines[k])]
    IN  SelectSeq(stripped, LAMBDA line : line # "")

(* C15 as stated: _extract_sections applied to a text none of whose lines  *)
(* matches a header pattern returns a map with exactly one entry, keyed    *)
(* "general", whose value is the normalised input text (its non-blank      *)
(* lines, stripped, joined by line breaks).                                *)
C15_NoHeaderYieldsGeneral ==
    (Segmented /\ NoHeaderLine) =>
        /\ DOMAIN segmenter.sections = {"general"}
        /\ segmenter.sections["general"] =
              join("\n", kept_lines(segmenter.lines))

(* C15 amended: for a text none of whose lines matches a header pattern,   *)
(* _extract_sections returns the empty map when every line is blank (the   *)
(* empty text included), and otherwise exactly one entry, keyed "general", *)
(* holding the non-blank lines stripped and joined by line breaks, which   *)
(* is the text itself when the text is one stripped line.                  *)
C15_NoHeaderYieldsGeneralUnlessBlank ==
    (Segmented /\ NoHeaderLine) =>
        IF kept_lines(segmenter.lines) = <<>>
        THEN segmenter.sections = <<>>
        ELSE /\ DOMAIN segmenter.sections = {"general"}
             /\ segmenter.sections["general"] =
                   join("\n", kept_lines(segmenter.lines))
             /\ (Len(segmenter.lines) = 1
                    /\ strip(segmenter.text) = segmenter.text) =>
                   segmenter.sections["general"] = segmenter.text

(* C15 witness: a text of two content lines and a blank line, no header,   *)
(* segmented into the single section "general".                            *)
C15_Witness ==
    /\ Segmented
    /\ segmenter.text = "Python\n\n  Django REST  "
    /\ DOMAIN segmenter.sections = {"general"}
    /\ segmenter.sections["general"] = "Python\nDjango REST"

(* C16: the top-domains list of an analysis has exactly 3 entries, each a  *)
(* domain with its score record, ordered by non-increasing score with      *)
(* equal scores in declared domain order; its first entry is the primary   *)
(* domain with the primary score.                                          *)
C16_TopDomainsAreTopThree ==
    Analyzed =>
        LET top == resume_analysis.top_domains
        IN  /\ Len(top) = 3
            /\ \A i \in 1..3 :
                  /\ top[i][1] \in Domains
                  /\ top[i][2] = resume_analysis.all_domains[top[i][1]]
            /\ \A i \in 1..2 :
                  \/ top[i][2].score > top[i + 1][2].score
                  \/ /\ top[i][2].score = top[i + 1][2].score
                     /\ domain_index(top[i][1]) < domain_index(top[i + 1][1])
            /\ top[1][1] = resume_analysis.primary_domain
            /\ top[1][2].score = resume_analysis.primary_score

(* C16 witness: an analysis whose second and third top domains share a     *)
(* positive score below the primary score, and whose primary domain is not *)
(* the first declared one.                                                 *)
C16_Witness ==
    /\ Analyzed
    /\ resume_analysis.primary_domain # DomainOrder[1]
    /\ resume_analysis.top_domains[1][2].score
           > resume_analysis.top_domains[2][2].score
    /\ resume_analysis.top_domains[2][2].score
           = resume_analysis.top_domains[3][2].score
    /\ resume_analysis.top_domains[3][2].score > 0

(* C17: for the empty resume text analyze_resume_type scores all 7 domains *)
(* 0 with every match list empty, and parse_resume returns an empty        *)
(* ParsedResume: every contact field and the summary absent, the skills    *)
(* map empty, the experience, education, project, certification and        *)
(* language lists empty, and no sections.                                  *)
C17_EmptyResumeYieldsEmptyResults ==
    /\ (pc \in {"analyze_called", "parsed"} /\ resume_text = "") =>
          \A d \in Domains :
              LET data == resume_analysis.all_domains[d]
              IN  /\ data.score = 0
                  /\ data.keyword_matches = <<>>
                  /\ data.tool_matches = <<>>
                  /\ data.framework_matches = <<>>
                  /\ data.database_matches = <<>>
                  /\ data.cloud_matches = <<>>
    /\ (pc = "parsed" /\ resume_text = "") =>
          /\ parsed.status = "returned"
          /\ \A field \in DOMAIN parsed.resume.contact_info :
                parsed.resume.contact_info[field] = None
          /\ parsed.resume.summary = None
          /\ DOMAIN parsed.resume.skills = {}
          /\ parsed.resume.experience = <<>>
          /\ parsed.resume.education = <<>>
          /\ parsed.resume.projects = <<>>
          /\ parsed.resume.certifications = <<>>
          /\ parsed.resume.languages = <<>>
          /\ DOMAIN parsed.resume.parsed_sections = {}

(* C17 witness: the empty text has been analysed and parsed.               *)
C17_Witness ==
    /\ pc = "parsed"
    /\ resume_text = ""
    /\ parsed.status = "returned"
    /\ parsed.resume.raw_text = ""
    /\ resume_analysis.primary_score = 0

(* C18: every (domain, record) entry of the top-domains list of an         *)
(* analysis provides the field keywords_found, the list test_your_resume   *)
(* reads for each of the top 3 domains.                                    *)
C18_TopDomainsProvideKeywordsFound ==
    Analyzed =>
        \A i \in 1..Len(resume_analysis.top_domains) :
            "keywords_found" \in DOMAIN resume_analysis.top_domains[i][2]

header_lines(tag) ==
    {k \in 1..Len(segmenter.lines) :
        header_of(strip(segmenter.lines[k])) = tag}

last_of(positions) ==
    CHOOSE k \in positions : \A j \in positions : j <= k

block_after(k) ==
    LET later == {j \in (k + 1)..Len(segmenter.lines) :
                     header_of(strip(segmenter.lines[j])) # NoHeader}
        stop == IF later = {} THEN Len(segmenter.lines) + 1
                ELSE CHOOSE j \in later : \A i \in later : j <= i
    IN  join("\n", kept_lines(SubSeq(segmenter.lines, k + 1, stop - 1)))

SectionTags == {section_patterns[k].name : k \in 1..Len(section_patterns)}

(* C19: a section tag that occurs as a header more than once ends up       *)
(* mapped to the lines following its last occurrence only, whether lines,  *)
(* another header or the end of input follow it: the block of an earlier   *)
(* occurrence is neither kept nor merged.                                  *)
C19_RecurringTagKeepsLastBlockOnly ==
    Segmented =>
        \A tag \in SectionTags :
            Cardinality(header_lines(tag)) > 1 =>
                LET block == block_after(last_of(header_lines(tag)))
                IN  IF tag \in DOMAIN segmenter.sections
                    THEN segmenter.sections[tag] = block
                    ELSE block = ""

HeaderStep ==
    /\ pc = "segmenting"
    /\ segmenter.next <= Len(segmenter.lines)
    /\ header_of(strip(segmenter.lines[segmenter.next])) # NoHeader

ReturnStep ==
    /\ pc = "segmenting"
    /\ pc' = "segmented"

stored_under(tag, content) ==
    /\ DOMAIN segmenter'.sections = DOMAIN segmenter.sections \cup {tag}
    /\ segmenter'.sections[tag] = join("\n", content)
    /\ \A other \in DOMAIN segmenter.sections \ {tag} :
          segmenter'.sections[other] = segmenter.sections[other]

(* C20: in _extract_sections, on a line that matches a header pattern the  *)
(* buffered lines are stored in the section map under the previous tag if  *)
(* and only if that tag is not the initial "general"; the current tag then *)
(* becomes the matched tag and the buffer is emptied; at the end of input  *)
(* a non-empty buffer is stored under the current tag.                     *)
C20_HeaderFlushAndFinalFlush ==
    [][ /\ HeaderStep =>
              /\ IF segmenter.current_section # "general"
                 THEN stored_under(segmenter.current_section,
                                   segmenter.current_content)
                 ELSE segmenter'.sections = segmenter.sections
              /\ segmenter'.current_section =
                    header_of(strip(segmenter.lines[segmenter.next]))
              /\ segmenter'.current_content = <<>>
        /\ ReturnStep =>
              IF segmenter.current_content # <<>>
              THEN stored_under(segmenter.current_section,
                                segmenter.current_content)
              ELSE segmenter'.sections = segmenter.sections ]_vars

(* C20 witness: the header EDUCATION has just been read behind the section *)
(* Skills with one buffered line, which is now stored under skills.        *)
C20_Witness ==
    /\ pc = "segmenting"
    /\ segmenter.lines = <<"Skills", "Python", "EDUCATION">>
    /\ segmenter.next = 4
    /\ segmenter.sections = [skills |-> "Python"]
    /\ segmenter.current_section = "education"
    /\ segmenter.current_content = <<>>

(***************************************************************************)
(* The declared order of the section tags and the tags whose pattern a     *)
(* line matches; LineRead holds behind a pass of the loop of               *)
(* _extract_sections over a non-empty line.                                *)
(***************************************************************************)
DeclaredOrder ==
    << "contact", "summary", "experience", "education", "skills", "projects",
       "certifications", "languages", "achievements" >>

matching_tags(line) ==
    {k \in 1..Len(section_patterns) :
        \E a \in 1..Len(section_patterns[k].alternatives) :
            str_in(section_patterns[k].alternatives[a], lower(line))}

LineRead ==
    /\ pc = "segmenting"
    /\ segmenter.next > 1
    /\ strip(segmenter.lines[segmenter.next - 1]) # ""

line_read == strip(segmenter.lines[segmenter.next - 1])

FirstMatchingTagWins ==
    (LineRead /\ matching_tags(line_read) # {}) =>
        \E k \in matching_tags(line_read) :
            /\ \A j \in matching_tags(line_read) : k <= j
            /\ segmenter.current_section = DeclaredOrder[k]

(* C21 as stated: in _extract_sections a non-empty line that matches more  *)
(* than one header pattern is assigned the tag that comes first in the     *)
(* declared order contact, summary, experience, education, skills,         *)
(* projects, certifications, languages, achievements; a line containing    *)
(* the word "languages" always starts the skills section, never the        *)
(* languages section.                                                      *)
C21_FirstTagWinsLanguagesIsSkills ==
    /\ FirstMatchingTagWins
    /\ (LineRead /\ str_in("languages", lower(line_read))) =>
          segmenter.current_section = "skills"

(* C21 amended: a non-empty line that matches more than one header pattern *)
(* is assigned the tag that comes first in the declared order; a line      *)
(* containing the word "languages" never starts the languages section: it  *)
(* starts the skills section unless it also matches the pattern of         *)
(* contact, summary, experience or education, and then it starts the       *)
(* first of those.                                                         *)
C21_FirstTagWinsLanguagesNeverLanguages ==
    /\ FirstMatchingTagWins
    /\ (LineRead /\ str_in("languages", lower(line_read))) =>
          /\ segmenter.current_section # "languages"
          /\ IF \E k \in matching_tags(line_read) : k < 5
             THEN segmenter.current_section \in
                      {"contact", "summary", "experience", "education"}
             ELSE segmenter.current_section = "skills"

(* C21 witness: the line "Spoken languages", which matches the patterns of *)
(* skills and of languages, has just started the skills section.           *)
C21_Witness ==
    /\ LineRead
    /\ line_read = "Spoken languages"
    /\ matching_tags(line_read) = {5, 8}
    /\ segmenter.current_section = "skills"

BoostCalled == pc = "boost_called"

(* C22 as stated: for each of the 7 domains the subdomain-marker part of   *)
(* the boost, the amount added before the tiered term bonuses, is either 0 *)
(* or a single fixed bonus between 0.3 and 0.4, for every subdomain and    *)
(* posting text.                                                           *)
C22_SubdomainBonusIsZeroOrSingle ==
    BoostCalled =>
        \/ boost_call.subdomain_boost = 0
        \/ boost_call.subdomain_boost \in 30..40

(* C22 amended: the subdomain-marker part of the boost is 0 or a single    *)
(* 0.3 for each of the 6 domains other than javascript_fullstack; for      *)
(* javascript_fullstack it is 0 or 0.4 for mern_stack, and for full_stack, *)
(* frontend and backend it is the sum of two independent bonuses, 0.3 and  *)
(* 0.2, each added when its own marker is in the posting text, hence one   *)
(* of 0, 0.2, 0.3 and 0.5; for any other subdomain or domain it is 0.      *)
C22_SubdomainBonusValues ==
    BoostCalled =>
        boost_call.subdomain_boost \in
            IF boost_call.primary_domain = "javascript_fullstack"
            THEN IF boost_call.subdomain = "mern_stack" THEN {0, 40}
                 ELSE IF boost_call.subdomain \in
                             {"full_stack", "frontend", "backend"}
                      THEN {0, 20, 30, 50}
                      ELSE {0}
            ELSE IF /\ boost_call.primary_domain \in Domains
                    /\ boost_call.subdomain \in
                           SubdomainsOf[boost_call.primary_domain]
                 THEN {0, 30}
                 ELSE {0}

(* C22 witness: a full-stack posting that names "Full Stack", "frontend"   *)
(* and "backend" is boosted for the subdomain full_stack by 0.3 + 0.2.     *)
C22_Witness ==
    /\ BoostCalled
    /\ boost_call.primary_domain = "javascript_fullstack"
    /\ boost_call.subdomain = "full_stack"
    /\ str_in("full stack", lower(boost_call.job_text))
    /\ str_in("frontend", lower(boost_call.job_text))
    /\ str_in("backend", lower(boost_call.job_text))
    /\ boost_call.subdomain_boost = 50

tier_keywords ==
    [ javascript_fullstack |-> js_keywords,
      python_development   |-> python_keywords,
      java_development     |-> java_keywords,
      cybersecurity        |-> security_keywords,
      data_science         |-> ds_keywords,
      devops               |-> devops_keywords,
      cloud_engineering    |-> cloud_keywords ]

terms_contained(terms, job_text) ==
    Cardinality({k \in 1..Len(terms) : str_in(terms[k], lower(job_text))})

(* C23: for each domain the uncapped boost equals the subdomain bonus plus *)
(* 0.15 times the number of high-tier terms contained in the posting text  *)
(* plus 0.10 times the number of medium-tier terms plus 0.05 times the     *)
(* number of low-tier terms, each matching term counted once with no       *)
(* per-tier limit, and the returned boost is the minimum of that sum and   *)
(* 0.5.                                                                    *)
C23_BoostIsBonusPlusTierSumCapped ==
    (BoostCalled /\ boost_call.primary_domain \in Domains) =>
        LET keywords == tier_keywords[boost_call.primary_domain]
            sum == boost_call.subdomain_boost
                     + 15 * terms_contained(keywords.high, boost_call.job_text)
                     + 10 * terms_contained(keywords.medium,
                                            boost_call.job_text)
                     + 5 * terms_contained(keywords.low, boost_call.job_text)
        IN  /\ boost_call.uncapped = sum
            /\ boost_call.boost = IF sum <= 50 THEN sum ELSE 50

(* C23 witness: a Python posting that contains the two high-tier terms     *)
(* "python" and "django" and the medium-tier term "api developer", with    *)
(* no subdomain bonus, is boosted by 2 * 0.15 + 0.10, below the cap.       *)
C23_Witness ==
    /\ BoostCalled
    /\ boost_call.primary_domain = "python_development"
    /\ boost_call.subdomain = "python_developer"
    /\ terms_contained(python_keywords.high, boost_call.job_text) = 2
    /\ terms_contained(python_keywords.medium, boost_call.job_text) = 1
    /\ boost_call.subdomain_boost = 0
    /\ boost_call.uncapped = 40
    /\ boost_call.boost = 40

(***************************************************************************)
(* The decision trees of detect_subdomain as data: per domain the branches *)
(* in priority order, each with the marker sets one of which must be       *)
(* contained whole in the lowercased text, and the tag of the last branch. *)
(***************************************************************************)
subdomain_branches ==
    [ javascript_fullstack |->
        << [any |-> {{"frontend", "backend"}}, tag |-> "full_stack"],
           [any |-> {{"frontend"}}, tag |-> "frontend"],
           [any |-> {{"backend"}}, tag |-> "backend"],
           [any |-> {{"mern"}, {"mean"}}, tag |-> "mern_stack"] >>,
      python_development |->
        << [any |-> {{"django"}}, tag |-> "django_developer"],
           [any |-> {{"flask"}}, tag |-> "flask_developer"],
           [any |-> {{"fastapi"}}, tag |-> "fastapi_developer"] >>,
      java_development |->
        << [any |-> {{"spring"}}, tag |-> "spring_developer"],
           [any |-> {{"hibernate"}}, tag |-> "hibernate_developer"] >>,
      cybersecurity |->
        << [any |-> {{"penetration"}, {"ethical hacker"}},
            tag |-> "penetration_tester"],
           [any |-> {{"incident response"}}, tag |-> "incident_response"],
           [any |-> {{"soc"}}, tag |-> "soc_analyst"] >>,
      data_science |->
        << [any |-> {{"machine learning"}, {"ml"}}, tag |-> "ml_engineer"],
           [any |-> {{"nlp"}}, tag |-> "nlp_engineer"],
           [any |-> {{"computer vision"}},
            tag |-> "computer_vision_engineer"] >>,
      devops |->
        << [any |-> {{"ci/cd"}}, tag |-> "ci_cd_engineer"],
           [any |-> {{"kubernetes"}}, tag |-> "kubernetes_engineer"],
           [any |-> {{"terraform"}}, tag |-> "infrastructure_engineer"] >>,
      cloud_engineering |->
        << [any |-> {{"aws"}}, tag |-> "aws_engineer"],
           [any |-> {{"azure"}}, tag |-> "azure_engineer"],
           [any |-> {{"gcp"}}, tag |-> "gcp_engineer"] >> ]

subdomain_default ==
    [ javascript_fullstack |-> "javascript_developer",
      python_development   |-> "python_developer",
      java_development     |-> "java_developer",
      cybersecurity        |-> "security_analyst",
      data_science         |-> "data_scientist",
      devops               |-> "devops_engineer",
      cloud_engineering    |-> "cloud_engineer" ]

SubdomainCalled == pc = "subdomain_called"

branch_holds(branch, text) ==
    \E markers \in branch.any : \A m \in markers : str_in(m, lower(text))

(* C24: detect_subdomain evaluates the markers of the primary domain in a  *)
(* fixed priority order and returns the tag of the first branch that       *)
(* holds, the default tag of the domain when none holds; for               *)
(* javascript_fullstack a text with "mern" and "frontend" (and no          *)
(* "backend") is frontend, not mern_stack; a primary domain outside the 7  *)
(* gives "general".                                                        *)
C24_FirstHoldingBranchDecides ==
    SubdomainCalled =>
        LET text == subdomain_call.text
            primary == subdomain_call.primary_domain
        IN  /\ primary \notin Domains => subdomain_call.subdomain = "general"
            /\ primary \in Domains =>
                  LET branches == subdomain_branches[primary]
                      holding == {k \in 1..Len(branches) :
                                     branch_holds(branches[k], text)}
                  IN  IF holding = {}
                      THEN subdomain_call.subdomain = subdomain_default[primary]
                      ELSE \E k \in holding :
                              /\ \A j \in holding : k <= j
                              /\ subdomain_call.subdomain = branches[k].tag
            /\ ( /\ primary = "javascript_fullstack"
                 /\ str_in("mern", lower(text))
                 /\ str_in("frontend", lower(text))
                 /\ ~str_in("backend", lower(text)) ) =>
                  subdomain_call.subdomain = "frontend"

(* C24 witness: detect_subdomain called for javascript_fullstack on a text *)
(* that names MERN before Frontend has returned frontend.                  *)
C24_Witness ==
    /\ SubdomainCalled
    /\ subdomain_call.primary_domain = "javascript_fullstack"
    /\ subdomain_call.text = "MERN Frontend"
    /\ subdomain_call.subdomain = "frontend"

composite_text(job) ==
    (IF "title" \in DOMAIN job THEN job.title ELSE "") \o " "
        \o (IF "company_name" \in DOMAIN job THEN job.company_name ELSE "")
        \o " "
        \o (IF "description" \in DOMAIN job THEN job.description ELSE "")

(* C25: in one successful rank_jobs_domain_aware call on N postings the    *)
(* resume text is encoded exactly once and before any posting is encoded,  *)
(* and each posting's composite text is encoded exactly once, in input     *)
(* order: N + 1 encode calls in total.                                     *)
C25_EncodeResumeOnceThenPostingsInOrder ==
    Returned =>
        /\ Len(encode_calls) = Len(fetched_jobs) + 1
        /\ encode_calls[1] = resume_text
        /\ \A i \in 1..Len(fetched_jobs) :
              encode_calls[i + 1] = composite_text(fetched_jobs[i])

(* C25 witness: a successful ranking of two different postings, one of     *)
(* them without a description, made three encode calls.                    *)
C25_Witness ==
    /\ Returned
    /\ Len(fetched_jobs) = 2
    /\ Len(encode_calls) = 3
    /\ encode_calls[2] = "Accountant Ledger "
    /\ encode_calls[3] = "Django REST API developer Acme 3 years Python"

Parsed == pc = "parsed" /\ parsed.status = "returned"

QueryOfAnalysis ==
    pc \in {"queried", "fetched", "ranked", "fell_back", "analysis_queried"}

(* C27: for every resume text and location, generate_smart_query applied   *)
(* to the output of analyze_resume_type succeeds and never returns the     *)
(* generic query "Software Developer <location> jobs": the primary domain  *)
(* of the analysis is one of the 7 domains the synthesizer dispatches on,  *)
(* and its subdomain is never "general".                                   *)
C27_AnalysedResumeNeverGetsGenericQuery ==
    QueryOfAnalysis =>
        /\ auto_query.raised = ""
        /\ auto_query.value # "Software Developer " \o location \o " jobs"
        /\ resume_analysis.primary_domain \in Domains
        /\ "subdomain" \in DOMAIN resume_analysis
        /\ resume_analysis.subdomain # "general"

(* C27 witness: the empty resume text, which matches no term of any        *)
(* domain, has been analysed and queried: the analysis names the first     *)
(* domain and the query is the one of that domain.                         *)
C27_Witness ==
    /\ pc = "analysis_queried"
    /\ resume_text = ""
    /\ resume_analysis.primary_score = 0
    /\ resume_analysis.primary_domain = "javascript_fullstack"
    /\ resume_analysis.subdomain = "javascript_developer"
    /\ auto_query.raised = ""
    /\ auto_query.value # "Software Developer " \o location \o " jobs"

lines_of(content) ==
    IF content = "" THEN <<>> ELSE split(content, "\n")

(* C28: in the output of _extract_sections the key "general" is present    *)
(* only when no line matched a header pattern; as soon as one header line  *)
(* is matched, the lines in front of the first header are in no section    *)
(* (every section holds the block of lines behind one of the header lines  *)
(* of its tag), and no header line itself is in the text of any section.   *)
C28_GeneralOnlyWithoutHeader ==
    Segmented =>
        /\ "general" \in DOMAIN segmenter.sections => NoHeaderLine
        /\ ~NoHeaderLine =>
              \A tag \in DOMAIN segmenter.sections :
                  /\ tag \in SectionTags
                  /\ \E k \in header_lines(tag) :
                        segmenter.sections[tag] = block_after(k)
        /\ \A tag \in DOMAIN segmenter.sections :
              \A i \in 1..Len(lines_of(segmenter.sections[tag])) :
                  header_of(lines_of(segmenter.sections[tag])[i]) = NoHeader

(* C28 witness: a text whose first line stands in front of the header      *)
(* Skills has been segmented; the line Python is in no section and there   *)
(* is no section "general".                                                *)
C28_Witness ==
    /\ Segmented
    /\ segmenter.lines = <<"Python", "Skills", "  Django REST  ">>
    /\ segmenter.sections = [skills |-> "Django REST"]

Reranked == pc = "reranked"

(* C29: ranking is idempotent on its own output: a second call of          *)
(* rank_jobs_domain_aware on the postings the first call returned, with    *)
(* the same resume text and analysis, yields the same base similarity,     *)
(* boost and final similarity for every posting and the same order; the    *)
(* score fields written by the first call are not part of the text that is *)
(* encoded or matched.                                                     *)
C29_RankingIsIdempotent ==
    Reranked =>
        /\ rank_status = "returned"
        /\ Len(ranked) = Len(first_ranked)
        /\ \A i \in 1..Len(ranked) :
              /\ jobs[ranked[i]] = first_ranked[i]
              /\ jobs[ranked[i]].base_similarity
                     = first_ranked[i].base_similarity
              /\ jobs[ranked[i]].domain_boost = first_ranked[i].domain_boost
              /\ jobs[ranked[i]].similarity = first_ranked[i].similarity
              /\ composite_text(first_ranked[i])
                     = composite_text(fetched_jobs[ranked[i]])

(* C29 witness: two different postings with the same final similarity,     *)
(* which the first call returned in fetched order, have been ranked again. *)
C29_Witness ==
    /\ Reranked
    /\ Len(first_ranked) = 2
    /\ first_ranked[1].title # first_ranked[2].title
    /\ first_ranked[1].similarity = first_ranked[2].similarity
    /\ ranked = <<1, 2>>
    /\ jobs[1] = first_ranked[1]

Completed == flow = "upload" /\ pc \in {"failed", "done"}

CopyCreated == extraction # "none"

(* C30: in upload_resume, once the temporary copy of the uploaded file has *)
(* been created, it is deleted before the request completes on every path: *)
(* empty extracted text, extraction error, no jobs found, ranking success, *)
(* ranking fallback and any unexpected exception; while the request is     *)
(* being processed the copy exists.                                        *)
C30_TempFileDeletedOnEveryPath ==
    /\ (Completed /\ CopyCreated) => temp_file = "deleted"
    /\ (flow = "upload" /\ ~Completed) => temp_file = "copy"

(* C30 witness: an upload whose ranking failed and fell back has been      *)
(* answered, and the temporary copy is deleted.                            *)
C30_Witness ==
    /\ Completed
    /\ CopyCreated
    /\ rank_status = "raised"
    /\ Len(jobs) = 2
    /\ jobs[2].similarity = 50
    /\ response = "HTTP 200"
    /\ temp_file = "deleted"

====
